---- MODULE Spec2Model ----
(***************************************************************************)
(* hprof-slurp: the HPROF record grammar (src/parser/record_parser.rs),    *)
(* the streaming parser loop (src/parser/record_stream_parser.rs), the     *)
(* prefetch reader (src/prefetch_reader.rs), the result recorder           *)
(* (src/result_recorder.rs) and the driver (src/slurp.rs), as a state      *)
(* machine over the bytes of a dump file.                                  *)
(*                                                                         *)
(* A parser works on a byte slice `i` and a position `pos` (the number of  *)
(* bytes of `i` already consumed); its result is one of                    *)
(*   [res |-> "Ok", pos |-> p, ...]     decoded, p bytes consumed so far   *)
(*   [res |-> "Incomplete", n |-> k]    nom::Err::Incomplete(Size(k))      *)
(*   [res |-> "Error"]                  nom::Err::Error                    *)
(*   [res |-> "Panic"]                  the thread panics                  *)
(***************************************************************************)
EXTENDS Integers, Sequences, FiniteSets, TLC

\* ------------------------------------------------------------------------
\* Bounds of the model
\* ------------------------------------------------------------------------

\* largest chunk size the reader is configured with (READ_BUFFER_SIZE scaled down)
MaxReadSize == 40

\* largest chunk handed to the stream parser by the chunk feeder
MaxFeed == 9

\* the largest number of items (characters, frames, sites, traces, samples
\* per trace) in the records decoded one by one
MaxCount == 2

\* the greatest value given to --top
MaxTop == 3

\* the value of --top when the option is not given
DefaultTop == 20

\* ------------------------------------------------------------------------
\* Program constants
\* ------------------------------------------------------------------------

FILE_HEADER_LENGTH == 31

TAG_STRING == 1
TAG_LOAD_CLASS == 2
TAG_UNLOAD_CLASS == 3
TAG_STACK_FRAME == 4
TAG_STACK_TRACE == 5
TAG_ALLOC_SITES == 6
TAG_HEAP_SUMMARY == 7
TAG_START_THREAD == 10
TAG_END_THREAD == 11
TAG_HEAP_DUMP == 12
TAG_HEAP_DUMP_SEGMENT == 28
TAG_HEAP_DUMP_END == 44
TAG_CONTROL_SETTING == 14
TAG_CPU_SAMPLES == 13

TAG_GC_ROOT_UNKNOWN == 255
TAG_GC_ROOT_JNI_GLOBAL == 1
TAG_GC_ROOT_JNI_LOCAL == 2
TAG_GC_ROOT_JAVA_FRAME == 3
TAG_GC_ROOT_NATIVE_STACK == 4
TAG_GC_ROOT_STICKY_CLASS == 5
TAG_GC_ROOT_THREAD_BLOCK == 6
TAG_GC_ROOT_MONITOR_USED == 7
TAG_GC_ROOT_THREAD_OBJ == 8
TAG_GC_CLASS_DUMP == 32
TAG_GC_INSTANCE_DUMP == 33
TAG_GC_OBJ_ARRAY_DUMP == 34
TAG_GC_PRIM_ARRAY_DUMP == 35

ID_SIZE == 8

\* ------------------------------------------------------------------------
\* Primitive decoders (src/primitive_parsers.rs, nom streaming)
\* ------------------------------------------------------------------------

Ok(p) == [res |-> "Ok", pos |-> p]
Incomplete(k) == [res |-> "Incomplete", n |-> k]
Panic == [res |-> "Panic"]
NomError == [res |-> "Error"]

\* big-endian unsigned value of the w bytes of i after position pos
RECURSIVE BE(_, _, _)
BE(i, pos, w) == IF w = 0 THEN 0 ELSE BE(i, pos, w - 1) * 256 + i[pos + w]

\* number::streaming::be_uN / be_iN / be_fN: N/8 bytes or Incomplete(missing)
parse_prim(i, pos, w) ==
    IF Len(i) - pos < w THEN Incomplete(w - (Len(i) - pos)) ELSE Ok(pos + w)

parse_u8(i, pos) == parse_prim(i, pos, 1)
parse_u16(i, pos) == parse_prim(i, pos, 2)
parse_u32(i, pos) == parse_prim(i, pos, 4)
parse_u64(i, pos) == parse_prim(i, pos, 8)
parse_id(i, pos) == parse_u64(i, pos)

\* A u32 is kept in two's complement: a value v >= 2^31 is the integer
\* v - 2^32, so that wrapping arithmetic stays inside TLC's 32-bit integers.
\* A usize too large for them saturates at Huge; every buffer of the model
\* is far shorter, so comparisons with a buffer length are exact.
Huge == 2147483646 + 1

\* a sum that asks for one byte more than the bytes missing
sat_add_one_more(a, b) == IF a >= 2147483646 - b THEN 2147483646 + 1 ELSE a + b + 1

sat_add(a, b) == IF a >= Huge - b THEN Huge ELSE a + b

be_u32(i, pos) ==
    LET b == i[pos + 1]
    IN  (IF b >= 128 THEN b - 256 ELSE b) * 16777216 + BE(i, pos + 1, 3)

\* a - b on u32 underflows (panics with overflow-checks, wraps without)
u32_sub_overflows(a, b) == a >= 0 /\ a < b

\* 2^31 / k for the element sizes k the grammar multiplies by
u32_half(k) == CASE k = 2 -> 1073741824 [] k = 4 -> 536870912 [] OTHER -> 268435456

u32_mul_overflows(a, k) == k > 1 /\ (a < 0 \/ (k > 2 /\ a >= 2 * u32_half(k)))

\* a * k modulo 2^32
u32_mul(a, k) ==
    IF k = 1 THEN a
    ELSE LET h == u32_half(k)
             low == IF k = 2 THEN (IF a < 0 THEN (a + 2147483647) + 1 ELSE a)
                    ELSE a % (2 * h)
         IN  IF low >= h THEN ((low - h) - h) * k ELSE low * k

\* bytes::streaming::take(cnt), cnt a u32 widened to usize
take(i, pos, cnt) ==
    IF cnt < 0 THEN Incomplete(Huge)
    ELSE IF Len(i) - pos < cnt THEN Incomplete(cnt - (Len(i) - pos))
    ELSE Ok(pos + cnt)

\* nom's tuple((p1, .., pk)) of primitive decoders of widths W
RECURSIVE tuple(_, _, _)
tuple(i, pos, W) ==
    IF W = <<>> THEN Ok(pos)
    ELSE LET r == parse_prim(i, pos, Head(W))
         IN  IF r.res = "Ok" THEN tuple(i, r.pos, Tail(W)) ELSE r

\* nom's count(tuple(W), k): k items of fixed layout W
RECURSIVE count(_, _, _, _)
count(i, pos, W, k) ==
    IF k = 0 THEN Ok(pos)
    ELSE LET r == tuple(i, pos, W)
         IN  IF r.res = "Ok" THEN count(i, r.pos, W, k - 1) ELSE r

\* position of the first NUL at or after pos, 0 when there is none
RECURSIVE find_nul(_, _)
find_nul(i, pos) ==
    IF pos >= Len(i) THEN 0
    ELSE IF i[pos + 1] = 0 THEN pos + 1 ELSE find_nul(i, pos + 1)

\* terminated(take_until("\0"), tag("\0")); without a NUL the result is
\* Incomplete(Needed::Unknown), written Incomplete(0)
parse_c_string(i, pos) ==
    IF find_nul(i, pos) = 0 THEN Incomplete(0) ELSE Ok(find_nul(i, pos))

\* String::from_utf8_lossy on ASCII bytes and on bytes that start no valid
\* sequence (each of those becomes U+FFFD)
from_utf8_lossy(b) == [k \in 1..Len(b) |-> IF b[k] < 128 THEN b[k] ELSE 65533]

\* ------------------------------------------------------------------------
\* Top-level records (src/parser/record_parser.rs); p is the position after
\* the tag byte, oc tells whether the build has overflow-checks
\* ------------------------------------------------------------------------

WithRec(r, rec) == [res |-> "Ok", pos |-> r.pos, rec |-> rec]

\* sequencing of two parsers: the second runs on the result of the first
and_then(r, F(_)) == IF r.res # "Ok" THEN r ELSE F(r)

parse_header_record(i, p) == tuple(i, p, <<4, 4>>)

parse_utf8_string(i, p, oc) ==
    and_then(parse_header_record(i, p), LAMBDA h :
        IF u32_sub_overflows(be_u32(i, p + 4), ID_SIZE) /\ oc THEN Panic
        ELSE and_then(parse_id(i, h.pos), LAMBDA r1 :
             and_then(take(i, r1.pos, be_u32(i, p + 4) - ID_SIZE), LAMBDA r2 :
                 WithRec(r2, [kind |-> "Utf8String",
                              id |-> BE(i, h.pos, 8),
                              str |-> from_utf8_lossy(SubSeq(i, r1.pos + 1, r2.pos))]))))

parse_load_class(i, p) ==
    LET r == tuple(i, p, <<4, 4, 4, 8, 4, 8>>)
    IN  IF r.res # "Ok" THEN r
        ELSE WithRec(r, [kind |-> "LoadClass",
                         serial_number |-> be_u32(i, p + 8),
                         class_object_id |-> BE(i, p + 12, 8),
                         stack_trace_serial_number |-> be_u32(i, p + 20),
                         class_name_id |-> BE(i, p + 24, 8)])

parse_unload_class(i, p) ==
    LET r == tuple(i, p, <<4, 4, 4>>)
    IN  IF r.res # "Ok" THEN r
        ELSE WithRec(r, [kind |-> "UnloadClass", serial_number |-> be_u32(i, p + 8)])

parse_stack_frame(i, p) ==
    LET r == tuple(i, p, <<4, 4, 8, 8, 8, 8, 4, 4>>)
    IN  IF r.res # "Ok" THEN r
        ELSE WithRec(r, [kind |-> "StackFrame",
                         stack_frame_id |-> BE(i, p + 8, 8),
                         method_name_id |-> BE(i, p + 16, 8),
                         method_signature_id |-> BE(i, p + 24, 8),
                         source_file_name_id |-> BE(i, p + 32, 8),
                         class_serial_number |-> be_u32(i, p + 40),
                         line_number |-> be_u32(i, p + 44)])

\* the ids of count(parse_id, k) read at position q
ids_at(i, q, k) == [j \in 1..k |-> BE(i, q + 8 * (j - 1), 8)]

\* (length - 12) / ID_SIZE on u32, wrapped when length < 12
stack_frame_ids_len(length) ==
    IF length >= 12 THEN (length - 12) \div ID_SIZE
    ELSE 536870912 + ((length - 12) \div ID_SIZE)

parse_stack_trace(i, p, oc) ==
    and_then(parse_header_record(i, p), LAMBDA h :
        IF u32_sub_overflows(be_u32(i, p + 4), 12) /\ oc THEN Panic
        ELSE and_then(tuple(i, h.pos, <<4, 4, 4>>), LAMBDA r1 :
             and_then(count(i, r1.pos, <<8>>, stack_frame_ids_len(be_u32(i, p + 4))), LAMBDA r2 :
                 WithRec(r2, [kind |-> "StackTrace",
                              serial_number |-> be_u32(i, h.pos),
                              thread_serial_number |-> be_u32(i, h.pos + 4),
                              number_of_frames |-> be_u32(i, h.pos + 8),
                              stack_frame_ids |->
                                  ids_at(i, r1.pos, stack_frame_ids_len(be_u32(i, p + 4)))]))))

parse_start_thread(i, p) ==
    LET r == tuple(i, p, <<4, 4, 4, 8, 4, 8, 8, 8>>)
    IN  IF r.res # "Ok" THEN r
        ELSE WithRec(r, [kind |-> "StartThread",
                         thread_serial_number |-> be_u32(i, p + 8),
                         thread_object_id |-> BE(i, p + 12, 8),
                         stack_trace_serial_number |-> be_u32(i, p + 20),
                         thread_name_id |-> BE(i, p + 24, 8),
                         thread_group_name_id |-> BE(i, p + 32, 8),
                         thread_group_parent_name_id |-> BE(i, p + 40, 8)])

parse_heap_summary(i, p) ==
    LET r == tuple(i, p, <<4, 4, 4, 4, 8, 8>>)
    IN  IF r.res # "Ok" THEN r
        ELSE WithRec(r, [kind |-> "HeapSummary",
                         total_live_bytes |-> be_u32(i, p + 8),
                         total_live_instances |-> be_u32(i, p + 12),
                         total_bytes_allocated |-> BE(i, p + 16, 8),
                         total_instances_allocated |-> BE(i, p + 24, 8)])

parse_end_thread(i, p) ==
    LET r == tuple(i, p, <<4, 4, 4>>)
    IN  IF r.res # "Ok" THEN r
        ELSE WithRec(r, [kind |-> "EndThread", thread_serial_number |-> be_u32(i, p + 8)])

\* parse_allocation_site: u8 and six u32
allocation_site_layout == <<1, 4, 4, 4, 4, 4, 4>>

\* a u32 count widened to usize
usize_from(n) == IF n < 0 THEN Huge ELSE n

parse_allocation_sites(i, p) ==
    and_then(tuple(i, p, <<4, 4, 2, 4, 4, 4, 8, 8, 4>>), LAMBDA r :
    and_then(count(i, r.pos, allocation_site_layout, usize_from(be_u32(i, p + 38))), LAMBDA r2 :
        WithRec(r2, [kind |-> "AllocationSites", number_of_sites |-> be_u32(i, p + 38)])))

parse_heap_dump_end(i, p) ==
    LET r == parse_header_record(i, p)
    IN  IF r.res # "Ok" THEN r
        ELSE WithRec(r, [kind |-> "HeapDumpEnd", length |-> be_u32(i, p + 4)])

parse_control_settings(i, p) ==
    LET r == tuple(i, p, <<4, 4, 4, 2>>)
    IN  IF r.res # "Ok" THEN r
        ELSE WithRec(r, [kind |-> "ControlSettings",
                         flags |-> be_u32(i, p + 8),
                         stack_trace_depth |-> BE(i, p + 12, 2)])

\* parse_cpu_sample: two u32
cpu_sample_layout == <<4, 4>>

parse_cpu_samples(i, p) ==
    and_then(tuple(i, p, <<4, 4, 4, 4>>), LAMBDA r :
    and_then(count(i, r.pos, cpu_sample_layout, usize_from(be_u32(i, p + 8))), LAMBDA r2 :
        WithRec(r2, [kind |-> "CpuSamples",
                     total_number_of_samples |-> be_u32(i, p + 8),
                     number_of_traces |-> be_u32(i, p + 12)])))

\* ------------------------------------------------------------------------
\* Heap-dump sub-records (src/parser/record_parser.rs, src/parser/gc_record.rs);
\* p is the position after the sub-record tag
\* ------------------------------------------------------------------------

FieldType_Object == 2
FieldType_Bool == 4
FieldType_Char == 5
FieldType_Float == 6
FieldType_Double == 7
FieldType_Byte == 8
FieldType_Short == 9
FieldType_Int == 10
FieldType_Long == 11

FieldTypeValues ==
    {FieldType_Object, FieldType_Bool, FieldType_Char, FieldType_Float, FieldType_Double,
     FieldType_Byte, FieldType_Short, FieldType_Int, FieldType_Long}

\* parse_field_value: the width of a value of type ty (Object is an id)
field_value_width(ty) ==
    CASE ty = FieldType_Object -> 8
      [] ty \in {FieldType_Bool, FieldType_Byte} -> 1
      [] ty \in {FieldType_Char, FieldType_Short} -> 2
      [] ty \in {FieldType_Float, FieldType_Int} -> 4
      [] OTHER -> 8

\* map(parse_i8, FieldType::from_value): panics on a value that is no field type
parse_field_type(i, pos) ==
    LET r == parse_prim(i, pos, 1)
    IN  IF r.res # "Ok" THEN r
        ELSE IF i[pos + 1] \notin FieldTypeValues THEN Panic
        ELSE [res |-> "Ok", pos |-> r.pos, ty |-> i[pos + 1]]

\* parse_const_pool_item (idw = 2, a u16 index), parse_static_field_item
\* (idw = 8, a name id): index or name, field type, value of that type
parse_field_item(i, pos, idw) ==
    and_then(parse_prim(i, pos, idw), LAMBDA r1 :
    and_then(parse_field_type(i, r1.pos), LAMBDA r2 :
        parse_prim(i, r2.pos, field_value_width(r2.ty))))

\* parse_instance_field_item: name id and field type, no value
parse_instance_field_item(i, pos) ==
    and_then(parse_id(i, pos), LAMBDA r1 :
    and_then(parse_field_type(i, r1.pos), LAMBDA r2 : Ok(r2.pos)))

\* count(parse_const_pool_item | parse_static_field_item, k)
RECURSIVE count_field_items(_, _, _, _)
count_field_items(i, pos, idw, k) ==
    IF k = 0 THEN Ok(pos)
    ELSE LET r == parse_field_item(i, pos, idw)
         IN  IF r.res = "Ok" THEN count_field_items(i, r.pos, idw, k - 1) ELSE r

\* count(parse_instance_field_item, k)
RECURSIVE count_instance_field_items(_, _, _)
count_instance_field_items(i, pos, k) ==
    IF k = 0 THEN Ok(pos)
    ELSE LET r == parse_instance_field_item(i, pos)
         IN  IF r.res = "Ok" THEN count_instance_field_items(i, r.pos, k - 1) ELSE r

parse_gc_root_unknown(i, p) ==
    LET r == parse_id(i, p)
    IN  IF r.res # "Ok" THEN r
        ELSE WithRec(r, [kind |-> "RootUnknown", object_id |-> BE(i, p, 8)])

parse_gc_root_thread_object(i, p) ==
    LET r == tuple(i, p, <<8, 4, 4>>)
    IN  IF r.res # "Ok" THEN r
        ELSE WithRec(r, [kind |-> "RootThreadObject", thread_object_id |-> BE(i, p, 8),
                         thread_sequence_number |-> be_u32(i, p + 8),
                         stack_sequence_number |-> be_u32(i, p + 12)])

parse_gc_root_jni_global(i, p) ==
    LET r == tuple(i, p, <<8, 8>>)
    IN  IF r.res # "Ok" THEN r
        ELSE WithRec(r, [kind |-> "RootJniGlobal", object_id |-> BE(i, p, 8),
                         jni_global_ref_id |-> BE(i, p + 8, 8)])

parse_gc_root_jni_local(i, p) ==
    LET r == tuple(i, p, <<8, 4, 4>>)
    IN  IF r.res # "Ok" THEN r
        ELSE WithRec(r, [kind |-> "RootJniLocal", object_id |-> BE(i, p, 8),
                         thread_serial_number |-> be_u32(i, p + 8),
                         frame_number_in_stack_trace |-> be_u32(i, p + 12)])

parse_gc_root_java_frame(i, p) ==
    LET r == tuple(i, p, <<8, 4, 4>>)
    IN  IF r.res # "Ok" THEN r
        ELSE WithRec(r, [kind |-> "RootJavaFrame", object_id |-> BE(i, p, 8),
                         thread_serial_number |-> be_u32(i, p + 8),
                         frame_number_in_stack_trace |-> be_u32(i, p + 12)])

parse_gc_root_native_stack(i, p) ==
    LET r == tuple(i, p, <<8, 4>>)
    IN  IF r.res # "Ok" THEN r
        ELSE WithRec(r, [kind |-> "RootNativeStack", object_id |-> BE(i, p, 8),
                         thread_serial_number |-> be_u32(i, p + 8)])

parse_gc_root_sticky_class(i, p) ==
    LET r == parse_id(i, p)
    IN  IF r.res # "Ok" THEN r
        ELSE WithRec(r, [kind |-> "RootStickyClass", object_id |-> BE(i, p, 8)])

parse_gc_root_thread_block(i, p) ==
    LET r == tuple(i, p, <<8, 4>>)
    IN  IF r.res # "Ok" THEN r
        ELSE WithRec(r, [kind |-> "RootThreadBlock", object_id |-> BE(i, p, 8),
                         thread_serial_number |-> be_u32(i, p + 8)])

parse_gc_root_monitor_used(i, p) ==
    LET r == parse_id(i, p)
    IN  IF r.res # "Ok" THEN r
        ELSE WithRec(r, [kind |-> "RootMonitorUsed", object_id |-> BE(i, p, 8)])

parse_gc_class_dump(i, p) ==
    and_then(tuple(i, p, <<8, 4, 8, 8, 8, 8, 8, 8, 4, 2>>), LAMBDA r1 :
    and_then(count_field_items(i, r1.pos, 2, BE(i, p + 64, 2)), LAMBDA r2 :
    and_then(parse_u16(i, r2.pos), LAMBDA r3 :
    and_then(count_field_items(i, r3.pos, 8, BE(i, r2.pos, 2)), LAMBDA r4 :
    and_then(parse_u16(i, r4.pos), LAMBDA r5 :
    and_then(count_instance_field_items(i, r5.pos, BE(i, r4.pos, 2)), LAMBDA r6 :
        WithRec(r6, [kind |-> "ClassDump",
                     class_object_id |-> BE(i, p, 8),
                     stack_trace_serial_number |-> be_u32(i, p + 8),
                     super_class_object_id |-> BE(i, p + 12, 8),
                     instance_size |-> be_u32(i, p + 60)])))))))

parse_gc_instance_dump(i, p) ==
    and_then(tuple(i, p, <<8, 4, 8, 4>>), LAMBDA r1 :
    and_then(take(i, r1.pos, be_u32(i, p + 20)), LAMBDA r2 :
        WithRec(r2, [kind |-> "InstanceDump", object_id |-> BE(i, p, 8),
                     stack_trace_serial_number |-> be_u32(i, p + 8),
                     class_object_id |-> BE(i, p + 12, 8),
                     data_size |-> be_u32(i, p + 20)])))

parse_gc_object_array_dump(i, p, oc) ==
    and_then(tuple(i, p, <<8, 4, 4, 8>>), LAMBDA r1 :
        IF u32_mul_overflows(be_u32(i, p + 12), ID_SIZE) /\ oc THEN Panic
        ELSE and_then(take(i, r1.pos, u32_mul(be_u32(i, p + 12), ID_SIZE)), LAMBDA r2 :
                 WithRec(r2, [kind |-> "ObjectArrayDump", object_id |-> BE(i, p, 8),
                              stack_trace_serial_number |-> be_u32(i, p + 8),
                              number_of_elements |-> be_u32(i, p + 12),
                              array_class_id |-> BE(i, p + 16, 8)])))

\* the factor skip_array_value multiplies the element count by
skip_factor(element_type) ==
    CASE element_type \in {FieldType_Bool, FieldType_Byte} -> 1
      [] element_type \in {FieldType_Char, FieldType_Short} -> 2
      [] element_type \in {FieldType_Float, FieldType_Int} -> 4
      [] OTHER -> 8

\* a skip that takes an array of Object for an array of ids
skip_array_value_lenient(i, pos, element_type, number_of_elements, oc) ==
    IF u32_mul_overflows(number_of_elements, skip_factor(element_type)) /\ oc THEN Panic
    ELSE take(i, pos, u32_mul(number_of_elements, skip_factor(element_type)))

skip_array_value(i, pos, element_type, number_of_elements, oc) ==
    IF element_type = FieldType_Object THEN Panic
    ELSE IF u32_mul_overflows(number_of_elements, skip_factor(element_type)) /\ oc THEN Panic
    ELSE take(i, pos, u32_mul(number_of_elements, skip_factor(element_type)))

parse_gc_primitive_array_dump(i, p, oc) ==
    and_then(tuple(i, p, <<8, 4, 4>>), LAMBDA r1 :
    and_then(parse_field_type(i, r1.pos), LAMBDA r2 :
    and_then(skip_array_value(i, r2.pos, r2.ty, be_u32(i, p + 12), oc), LAMBDA r3 :
        WithRec(r3, [kind |-> "PrimitiveArrayDump", object_id |-> BE(i, p, 8),
                     stack_trace_serial_number |-> be_u32(i, p + 8),
                     number_of_elements |-> be_u32(i, p + 12),
                     element_type |-> r2.ty]))))

parse_gc_record(i, pos, oc) ==
    LET t == parse_u8(i, pos)
        tag == i[pos + 1]
        p == pos + 1
    IN  IF t.res # "Ok" THEN t
        ELSE CASE tag = TAG_GC_ROOT_UNKNOWN -> parse_gc_root_unknown(i, p)
               [] tag = TAG_GC_ROOT_JNI_GLOBAL -> parse_gc_root_jni_global(i, p)
               [] tag = TAG_GC_ROOT_JNI_LOCAL -> parse_gc_root_jni_local(i, p)
               [] tag = TAG_GC_ROOT_JAVA_FRAME -> parse_gc_root_java_frame(i, p)
               [] tag = TAG_GC_ROOT_NATIVE_STACK -> parse_gc_root_native_stack(i, p)
               [] tag = TAG_GC_ROOT_STICKY_CLASS -> parse_gc_root_sticky_class(i, p)
               [] tag = TAG_GC_ROOT_THREAD_BLOCK -> parse_gc_root_thread_block(i, p)
               [] tag = TAG_GC_ROOT_MONITOR_USED -> parse_gc_root_monitor_used(i, p)
               [] tag = TAG_GC_ROOT_THREAD_OBJ -> parse_gc_root_thread_object(i, p)
               [] tag = TAG_GC_CLASS_DUMP -> parse_gc_class_dump(i, p)
               [] tag = TAG_GC_INSTANCE_DUMP -> parse_gc_instance_dump(i, p)
               [] tag = TAG_GC_OBJ_ARRAY_DUMP -> parse_gc_object_array_dump(i, p, oc)
               [] tag = TAG_GC_PRIM_ARRAY_DUMP -> parse_gc_primitive_array_dump(i, p, oc)
               [] OTHER -> Panic

\* ------------------------------------------------------------------------
\* HprofRecordParser (src/parser/record_parser.rs)
\* ------------------------------------------------------------------------

\* the match of parse_hprof_record on the tag of a top-level record
top_level_record(i, tag, p, oc) ==
    CASE tag = TAG_STRING -> parse_utf8_string(i, p, oc)
      [] tag = TAG_LOAD_CLASS -> parse_load_class(i, p)
      [] tag = TAG_UNLOAD_CLASS -> parse_unload_class(i, p)
      [] tag = TAG_STACK_FRAME -> parse_stack_frame(i, p)
      [] tag = TAG_STACK_TRACE -> parse_stack_trace(i, p, oc)
      [] tag = TAG_ALLOC_SITES -> parse_allocation_sites(i, p)
      [] tag = TAG_HEAP_SUMMARY -> parse_heap_summary(i, p)
      [] tag = TAG_START_THREAD -> parse_start_thread(i, p)
      [] tag = TAG_END_THREAD -> parse_end_thread(i, p)
      [] tag = TAG_CONTROL_SETTING -> parse_control_settings(i, p)
      [] tag = TAG_CPU_SAMPLES -> parse_cpu_samples(i, p)
      [] tag = TAG_HEAP_DUMP_END -> parse_heap_dump_end(i, p)
      [] tag \in {TAG_HEAP_DUMP, TAG_HEAP_DUMP_SEGMENT} ->
           and_then(parse_header_record(i, p), LAMBDA h :
               WithRec(h, [kind |-> "HeapDumpStart", length |-> be_u32(i, p + 4)]))
      [] OTHER -> Panic

\* one call of the closure of parse_hprof_record on the slice of i after pos,
\* with self.heap_dump_remaining_len = remaining; an Ok result carries the
\* record and the new value of the counter
parse_hprof_record(i, pos, remaining, oc) ==
    IF remaining = 0
    THEN and_then(parse_u8(i, pos), LAMBDA t :
         and_then(top_level_record(i, i[pos + 1], t.pos, oc), LAMBDA r :
             [res |-> "Ok", pos |-> r.pos, rec |-> r.rec,
              remaining |-> IF r.rec.kind = "HeapDumpStart" THEN r.rec.length ELSE 0]))
    ELSE \* GC record mode
         and_then(parse_gc_record(i, pos, oc), LAMBDA r :
             IF u32_sub_overflows(remaining, r.pos - pos) /\ oc THEN Panic
             ELSE [res |-> "Ok", pos |-> r.pos,
                   rec |-> [kind |-> "GcSegment", gc |-> r.rec],
                   remaining |-> remaining - (r.pos - pos)])

\* the loop of lazy_many1 once a first record has been pushed
RECURSIVE lazy_many1_loop(_, _, _, _, _)
\* the match of lazy_many1 on the result r of one more call of the parser
lazy_many1_next(r, i, pos, remaining, oc, vec) ==
    CASE r.res \in {"Error", "Incomplete"} ->
           [res |-> "Ok", pos |-> pos, vec |-> vec, remaining |-> remaining]
      [] r.res = "Panic" -> r
      [] OTHER ->
           IF r.pos = pos THEN NomError
           ELSE lazy_many1_loop(i, r.pos, r.remaining, oc, Append(vec, r.rec))

lazy_many1_loop(i, pos, remaining, oc, vec) ==
    lazy_many1_next(parse_hprof_record(i, pos, remaining, oc), i, pos, remaining, oc, vec)

\* lazy_many1(f, pooled_vec)(i): at least one record, then records until
\* the input runs short; the records are pushed onto pooled_vec
lazy_many1(i, remaining, oc, pooled_vec) ==
    and_then(parse_hprof_record(i, 0, remaining, oc), LAMBDA r :
        lazy_many1_loop(i, r.pos, r.remaining, oc, Append(pooled_vec, r.rec)))

parse_streaming(i, remaining, oc, pooled_vec) == lazy_many1(i, remaining, oc, pooled_vec)

\* ------------------------------------------------------------------------
\* File header (src/parser/file_header_parser.rs, src/slurp.rs)
\* ------------------------------------------------------------------------

\* a header parser for complete input only: a header that is cut short is
\* an error
parse_file_header_complete(i) ==
    IF find_nul(i, 0) = 0 \/ Len(i) - find_nul(i, 0) < 12 THEN NomError
    ELSE [res |-> "Ok", pos |-> find_nul(i, 0) + 12,
          header |-> [format |-> from_utf8_lossy(SubSeq(i, 1, find_nul(i, 0) - 1)),
                      size_pointers |-> be_u32(i, find_nul(i, 0)),
                      timestamp |-> BE(i, find_nul(i, 0) + 4, 8)]]

parse_file_header(i) ==
    and_then(parse_c_string(i, 0), LAMBDA r1 :
    and_then(tuple(i, r1.pos, <<4, 8>>), LAMBDA r2 :
        [res |-> "Ok", pos |-> r2.pos,
         header |-> [format |-> from_utf8_lossy(SubSeq(i, 1, r1.pos - 1)),
                     size_pointers |-> be_u32(i, r1.pos),
                     timestamp |-> BE(i, r1.pos + 4, 8)]]))

\* slurp_header on a file f: read_exact of FILE_HEADER_LENGTH bytes, the
\* header parse, then the id-size and rest checks, in the code's order
\* header checks that look at the rest before the id size
header_invariants_rest_first(r) ==
    IF r.res # "Ok" THEN [err |-> "InvalidHprofFile"]
    ELSE IF r.pos # 31 THEN [err |-> "InvalidHeaderSize"]
    ELSE IF r.header.size_pointers # 4 /\ r.header.size_pointers # 8
         THEN [err |-> "InvalidIdSize"]
    ELSE IF r.header.size_pointers = 4 THEN [err |-> "UnsupportedIdSize"]
    ELSE [err |-> "none", header |-> r.header]

\* a header read that hands whatever bytes the file has to the header parser
slurp_header_short_read(f) ==
    IF Len(f) < 31 THEN [err |-> "InvalidHprofFile"]
    ELSE [err |-> "none",
          header |-> [format |-> <<>>, size_pointers |-> 8, timestamp |-> 0]]

\* the checks of slurp_header on the result r of the header parse
header_invariants(r) ==
    IF r.res # "Ok" THEN [err |-> "InvalidHprofFile"]
    ELSE IF r.header.size_pointers # 4 /\ r.header.size_pointers # 8
         THEN [err |-> "InvalidIdSize"]
    ELSE IF r.header.size_pointers = 4 THEN [err |-> "UnsupportedIdSize"]
    ELSE IF r.pos # FILE_HEADER_LENGTH THEN [err |-> "InvalidHeaderSize"]
    ELSE [err |-> "none", header |-> r.header]

\* slurp_header on a file f: read_exact of FILE_HEADER_LENGTH bytes, the
\* header parse, then the id-size and rest checks, in the code's order
slurp_header(f) ==
    IF Len(f) < FILE_HEADER_LENGTH THEN [err |-> "StdIoError"]
    ELSE header_invariants(parse_file_header(SubSeq(f, 1, FILE_HEADER_LENGTH)))

\* ------------------------------------------------------------------------
\* ResultRecorder (src/result_recorder.rs): the aggregation state, the fold
\* of one record, the rendering
\* ------------------------------------------------------------------------

EmptyMap == [x \in {} |-> 0]

\* ResultRecorder::new
ResultRecorder_new ==
    [classes_unloaded |-> 0, stack_frames |-> 0, stack_traces |-> 0,
     start_threads |-> 0, end_threads |-> 0, heap_summaries |-> 0,
     heap_dumps |-> 0, allocation_sites |-> 0, control_settings |-> 0,
     cpu_samples |-> 0,
     heap_dump_segments_all_sub_records |-> 0,
     heap_dump_segments_gc_root_unknown |-> 0,
     heap_dump_segments_gc_root_thread_object |-> 0,
     heap_dump_segments_gc_root_jni_global |-> 0,
     heap_dump_segments_gc_root_jni_local |-> 0,
     heap_dump_segments_gc_root_java_frame |-> 0,
     heap_dump_segments_gc_root_native_stack |-> 0,
     heap_dump_segments_gc_root_sticky_class |-> 0,
     heap_dump_segments_gc_root_thread_block |-> 0,
     heap_dump_segments_gc_root_monitor_used |-> 0,
     heap_dump_segments_gc_object_array_dump |-> 0,
     heap_dump_segments_gc_primitive_array_dump |-> 0,
     heap_dump_segments_gc_instance_dump |-> 0,
     heap_dump_segments_gc_class_dump |-> 0,
     utf8_strings_by_id |-> EmptyMap,
     class_data |-> <<>>,
     class_data_by_id |-> EmptyMap,
     class_data_by_serial_number |-> EmptyMap,
     classes_single_instance_size_by_id |-> EmptyMap,
     classes_all_instance_total_size_by_id |-> EmptyMap,
     primitive_array_counters |-> EmptyMap,
     object_array_counters |-> EmptyMap,
     stack_trace_by_serial_number |-> EmptyMap,
     stack_frame_by_id |-> EmptyMap]

\* an insertion that keeps the value a key already has
insert_if_absent(m, k, v) == IF k \in DOMAIN m THEN m ELSE (k :> v) @@ m

\* HashMap::insert
insert(m, k, v) == (k :> v) @@ m

ArrayCounter_empty ==
    [number_of_arrays |-> 0, max_size_seen |-> 0, total_number_of_elements |-> 0]

\* a counter that keeps the length of the last array as the largest
add_elements_from_array_last(ac, elements) ==
    [number_of_arrays |-> ac.number_of_arrays + 1,
     total_number_of_elements |-> ac.total_number_of_elements + elements,
     max_size_seen |-> elements]

\* ArrayCounter::add_elements_from_array
add_elements_from_array(ac, elements) ==
    [number_of_arrays |-> ac.number_of_arrays + 1,
     total_number_of_elements |-> ac.total_number_of_elements + elements,
     max_size_seen |-> IF elements > ac.max_size_seen THEN elements ELSE ac.max_size_seen]

\* entry(k).or_insert_with(ArrayCounter::empty).add_elements_from_array(n)
count_array(m, k, n) ==
    insert(m, k, add_elements_from_array(IF k \in DOMAIN m THEN m[k] ELSE ArrayCounter_empty, n))

\* a recorder that counts the instance dumps as class dumps
gc_counter_swapped(kind) ==
    CASE kind = "RootUnknown" -> "heap_dump_segments_gc_root_unknown"
      [] kind = "RootThreadObject" -> "heap_dump_segments_gc_root_thread_object"
      [] kind = "RootJniGlobal" -> "heap_dump_segments_gc_root_jni_global"
      [] kind = "RootJniLocal" -> "heap_dump_segments_gc_root_jni_local"
      [] kind = "RootJavaFrame" -> "heap_dump_segments_gc_root_java_frame"
      [] kind = "RootNativeStack" -> "heap_dump_segments_gc_root_native_stack"
      [] kind = "RootStickyClass" -> "heap_dump_segments_gc_root_sticky_class"
      [] kind = "RootThreadBlock" -> "heap_dump_segments_gc_root_thread_block"
      [] kind = "RootMonitorUsed" -> "heap_dump_segments_gc_root_monitor_used"
      [] kind = "ObjectArrayDump" -> "heap_dump_segments_gc_object_array_dump"
      [] kind = "PrimitiveArrayDump" -> "heap_dump_segments_gc_primitive_array_dump"
      [] OTHER -> "heap_dump_segments_gc_class_dump"

\* the counter field a sub-record kind increments
gc_counter(kind) ==
    CASE kind = "RootUnknown" -> "heap_dump_segments_gc_root_unknown"
      [] kind = "RootThreadObject" -> "heap_dump_segments_gc_root_thread_object"
      [] kind = "RootJniGlobal" -> "heap_dump_segments_gc_root_jni_global"
      [] kind = "RootJniLocal" -> "heap_dump_segments_gc_root_jni_local"
      [] kind = "RootJavaFrame" -> "heap_dump_segments_gc_root_java_frame"
      [] kind = "RootNativeStack" -> "heap_dump_segments_gc_root_native_stack"
      [] kind = "RootStickyClass" -> "heap_dump_segments_gc_root_sticky_class"
      [] kind = "RootThreadBlock" -> "heap_dump_segments_gc_root_thread_block"
      [] kind = "RootMonitorUsed" -> "heap_dump_segments_gc_root_monitor_used"
      [] kind = "InstanceDump" -> "heap_dump_segments_gc_instance_dump"
      [] kind = "ObjectArrayDump" -> "heap_dump_segments_gc_object_array_dump"
      [] kind = "PrimitiveArrayDump" -> "heap_dump_segments_gc_primitive_array_dump"
      [] OTHER -> "heap_dump_segments_gc_class_dump"

\* the arm of record_records for a GcSegment(gc)
record_gc_record(st, gc) ==
    LET s1 == [st EXCEPT !.heap_dump_segments_all_sub_records = @ + 1,
                         ![gc_counter(gc.kind)] = @ + 1]
    IN  CASE gc.kind = "InstanceDump" ->
               [s1 EXCEPT !.classes_all_instance_total_size_by_id =
                    insert(@, gc.class_object_id,
                           IF gc.class_object_id \in DOMAIN @ THEN @[gc.class_object_id] + 1 ELSE 1)]
          [] gc.kind = "ObjectArrayDump" ->
               [s1 EXCEPT !.object_array_counters =
                    count_array(@, gc.array_class_id, gc.number_of_elements)]
          [] gc.kind = "PrimitiveArrayDump" ->
               [s1 EXCEPT !.primitive_array_counters =
                    count_array(@, gc.element_type, gc.number_of_elements)]
          [] gc.kind = "ClassDump" ->
               [s1 EXCEPT !.classes_single_instance_size_by_id =
                    IF gc.class_object_id \in DOMAIN @ THEN @
                    ELSE insert(@, gc.class_object_id,
                                [super_class_object_id |-> gc.super_class_object_id,
                                 instance_size |-> gc.instance_size])]
          [] OTHER -> s1

\* one iteration of the closure of record_records
record_record(st, r) ==
    CASE r.kind = "Utf8String" ->
           [st EXCEPT !.utf8_strings_by_id = insert(@, r.id, r.str)]
      [] r.kind = "LoadClass" ->
           LET data_index == Len(st.class_data) + 1
           IN  [st EXCEPT !.class_data = Append(@, r),
                          !.class_data_by_id = insert(@, r.class_object_id, data_index),
                          !.class_data_by_serial_number = insert(@, r.serial_number, data_index)]
      [] r.kind = "UnloadClass" -> [st EXCEPT !.classes_unloaded = @ + 1]
      [] r.kind = "StackFrame" ->
           [st EXCEPT !.stack_frames = @ + 1,
                      !.stack_frame_by_id = insert(@, r.stack_frame_id, r)]
      [] r.kind = "StackTrace" ->
           [st EXCEPT !.stack_traces = @ + 1,
                      !.stack_trace_by_serial_number = insert(@, r.serial_number, r)]
      [] r.kind = "StartThread" -> [st EXCEPT !.start_threads = @ + 1]
      [] r.kind = "EndThread" -> [st EXCEPT !.end_threads = @ + 1]
      [] r.kind = "AllocationSites" -> [st EXCEPT !.allocation_sites = @ + 1]
      [] r.kind = "HeapSummary" -> [st EXCEPT !.heap_summaries = @ + 1]
      [] r.kind = "ControlSettings" -> [st EXCEPT !.control_settings = @ + 1]
      [] r.kind = "CpuSamples" -> [st EXCEPT !.cpu_samples = @ + 1]
      [] r.kind = "HeapDumpEnd" -> st
      [] r.kind = "HeapDumpStart" -> [st EXCEPT !.heap_dumps = @ + 1]
      [] OTHER -> record_gc_record(st, r.gc)

\* record_records: the fold of a batch, in the order of the vector
RECURSIVE record_records(_, _)
record_records(st, records) ==
    IF records = <<>> THEN st
    ELSE record_records(record_record(st, Head(records)), Tail(records))

\* a + b on u32 overflows
u32_add_overflows(a, b) ==
    \/ a < 0 /\ b < 0
    \/ a < 0 /\ b >= 0 /\ a + b >= 0
    \/ a >= 0 /\ b < 0 /\ a + b >= 0

\* x - 2^31 for x in 0 .. 2^31 - 1
minus_2_31(x) == (x - 2147483647) - 1

\* a + b modulo 2^32, for operands that are both below 2^31 or both above
u32_add_same_half(a, b) ==
    IF a > 2147483647 - b THEN minus_2_31(a) + minus_2_31(b) ELSE a + b

\* a + b modulo 2^32
u32_add(a, b) ==
    IF a >= 0 /\ b >= 0 THEN u32_add_same_half(a, b)
    ELSE IF a < 0 /\ b < 0 THEN u32_add_same_half((a + 2147483647) + 1, (b + 2147483647) + 1)
    ELSE a + b

\* str.replace('/', ".")
replace_slash(s) == [k \in 1..Len(s) |-> IF s[k] = 47 THEN 46 ELSE s[k]]

\* get_class_name_string: the expect fails when the class or its name is unknown
class_name_known(st, class_id) ==
    /\ class_id \in DOMAIN st.class_data_by_id
    /\ st.class_data[st.class_data_by_id[class_id]].class_name_id \in DOMAIN st.utf8_strings_by_id

get_class_name_string(st, class_id) ==
    replace_slash(st.utf8_strings_by_id[st.class_data[st.class_data_by_id[class_id]].class_name_id])

\* every class on the cycle of super classes from id back to start has an
\* instance size of 0
RECURSIVE cycle_sizes_zero(_, _, _)
cycle_sizes_zero(st, start, id) ==
    /\ st.classes_single_instance_size_by_id[id].instance_size = 0
    /\ \/ st.classes_single_instance_size_by_id[id].super_class_object_id = start
       \/ cycle_sizes_zero(st, start,
                           st.classes_single_instance_size_by_id[id].super_class_object_id)

\* a walk that stops at the class itself and leaves its super classes out
chain_size_own(st, id, size, seen, oc) == [res |-> "Ok", size |-> size]

\* the while loop of render_memory_usage over the super-class chain: the sum
\* of the instance sizes from class id up, "Panic" when a class of the chain
\* has no entry (unwrap) or an addition overflows in a checked build. When
\* the chain comes back to a class already visited the loop goes round the
\* cycle for ever ("Diverge"), unless the build checks overflows and the
\* cycle adds to the size, which then overflows in the end
RECURSIVE chain_size(_, _, _, _, _)
chain_size(st, id, size, seen, oc) ==
    IF id = 0 THEN [res |-> "Ok", size |-> size]
    ELSE IF id \notin DOMAIN st.classes_single_instance_size_by_id THEN Panic
    ELSE IF id \in seen
    THEN (IF oc /\ ~cycle_sizes_zero(st, id, id) THEN Panic ELSE [res |-> "Diverge"])
    ELSE LET info == st.classes_single_instance_size_by_id[id]
         IN  IF u32_add_overflows(size, info.instance_size) /\ oc THEN Panic
             ELSE chain_size(st, info.super_class_object_id,
                             u32_add(size, info.instance_size), seen \cup {id}, oc)

\* the row of render_memory_usage for the instances of class_id
instance_row(st, id_size, class_id, oc) ==
    IF ~class_name_known(st, class_id) THEN Panic
    ELSE IF class_id \notin DOMAIN st.classes_single_instance_size_by_id THEN Panic
    ELSE LET info == st.classes_single_instance_size_by_id[class_id]
             c == chain_size(st, info.super_class_object_id, info.instance_size, {class_id}, oc)
             object_header == id_size + 4 + 4
         IN  IF c.res # "Ok" THEN c
             ELSE IF u32_add_overflows(c.size, object_header) /\ oc THEN Panic
             ELSE LET s1 == u32_add(c.size, object_header)
                      pad == s1 % 8
                  IN  IF u32_add_overflows(s1, pad) /\ oc THEN Panic
                      ELSE LET size == u32_add(s1, pad)
                               n == st.classes_all_instance_total_size_by_id[class_id]
                           IN  [res |-> "Ok",
                                row |-> [class_name |-> get_class_name_string(st, class_id),
                                         count |-> n, largest |-> size, total |-> size * n]]

\* format!("{field_type:?}").to_lowercase() + "[]": bool[], char[], ...
primitive_array_label(field_type) ==
    CASE field_type = FieldType_Bool -> <<98, 111, 111, 108, 91, 93>>
      [] field_type = FieldType_Char -> <<99, 104, 97, 114, 91, 93>>
      [] field_type = FieldType_Float -> <<102, 108, 111, 97, 116, 91, 93>>
      [] field_type = FieldType_Double -> <<100, 111, 117, 98, 108, 101, 91, 93>>
      [] field_type = FieldType_Byte -> <<98, 121, 116, 101, 91, 93>>
      [] field_type = FieldType_Short -> <<115, 104, 111, 114, 116, 91, 93>>
      [] field_type = FieldType_Int -> <<105, 110, 116, 91, 93>>
      [] field_type = FieldType_Long -> <<108, 111, 110, 103, 91, 93>>
      [] OTHER -> <<111, 98, 106, 101, 99, 116, 91, 93>>

primitive_byte_size(field_type) ==
    CASE field_type \in {FieldType_Byte, FieldType_Bool} -> 1
      [] field_type \in {FieldType_Char, FieldType_Short} -> 2
      [] field_type \in {FieldType_Float, FieldType_Int} -> 4
      [] OTHER -> 8

\* a row whose largest array is padded up to the next multiple of 8
primitive_array_row_aligned(st, id_size, field_type) ==
    IF field_type = FieldType_Object THEN Panic
    ELSE LET ac == st.primitive_array_counters[field_type]
             array_header_size == id_size + 4 + 4
             primitive_size == primitive_byte_size(field_type)
             cost_data_largest_array == primitive_size * ac.max_size_seen
         IN  [res |-> "Ok",
              row |-> [class_name |-> primitive_array_label(field_type),
                       count |-> ac.number_of_arrays,
                       largest |-> ((array_header_size + cost_data_largest_array + 7) \div 8) * 8,
                       total |-> array_header_size * ac.number_of_arrays
                                 + primitive_size * ac.total_number_of_elements
                                 + ac.number_of_arrays * 4]]

\* the row of render_memory_usage for the primitive arrays of one type
primitive_array_row(st, id_size, field_type) ==
    IF field_type = FieldType_Object THEN Panic
    ELSE LET ac == st.primitive_array_counters[field_type]
             array_header_size == id_size + 4 + 4
             primitive_size == primitive_byte_size(field_type)
             cost_data_largest_array == primitive_size * ac.max_size_seen
             cost_padding_largest_array == (array_header_size + cost_data_largest_array) % 8
         IN  [res |-> "Ok",
              row |-> [class_name |-> primitive_array_label(field_type),
                       count |-> ac.number_of_arrays,
                       largest |-> array_header_size + cost_data_largest_array
                                   + cost_padding_largest_array,
                       total |-> array_header_size * ac.number_of_arrays
                                 + primitive_size * ac.total_number_of_elements
                                 + ac.number_of_arrays * 4]]

starts_with(s, prefix) == Len(s) >= Len(prefix) /\ SubSeq(s, 1, Len(prefix)) = prefix

\* chars().skip(k).take(n)
skip_take(s, k, n) == SubSeq(s, k + 1, IF k + n > Len(s) THEN Len(s) ELSE k + n)

\* the row of render_memory_usage for the object arrays of class_id
object_array_row(st, id_size, class_id, oc) ==
    IF ~class_name_known(st, class_id) THEN Panic
    ELSE LET raw_class_name == get_class_name_string(st, class_id)
             n == Len(raw_class_name)
             ac == st.object_array_counters[class_id]
             array_header_size == id_size + 4 + 4
             \* usize: count() - 3 and count() - 4 wrap to a huge count
             cleaned_class_name ==
                 IF starts_with(raw_class_name, <<91, 76>>)
                 THEN skip_take(raw_class_name, 2, IF n < 3 THEN Huge - 2 ELSE n - 3)
                 ELSE IF starts_with(raw_class_name, <<91, 91, 76>>)
                 THEN skip_take(raw_class_name, 3, IF n < 4 THEN Huge - 3 ELSE n - 4)
                 ELSE raw_class_name
         IN  IF oc /\ starts_with(raw_class_name, <<91, 76>>) /\ n < 3 THEN Panic
             ELSE IF oc /\ starts_with(raw_class_name, <<91, 91, 76>>) /\ n < 4 THEN Panic
             ELSE [res |-> "Ok",
                   row |-> [class_name |-> cleaned_class_name \o <<91, 93>>,
                            count |-> ac.number_of_arrays,
                            largest |-> array_header_size + id_size * ac.max_size_seen,
                            total |-> array_header_size * ac.number_of_arrays
                                      + id_size * ac.total_number_of_elements]]

\* the orders in which the iteration of a hash map can yield the keys S
iteration_orders(S) ==
    {s \in [1..Cardinality(S) -> S] :
        \A a, b \in 1..Cardinality(S) : a # b => s[a] # s[b]}

\* one order for each of the three maps render_memory_usage iterates
hash_orders(st) ==
    [i : iteration_orders(DOMAIN st.classes_all_instance_total_size_by_id),
     p : iteration_orders(DOMAIN st.primitive_array_counters),
     o : iteration_orders(DOMAIN st.object_array_counters)]

\* String::cmp: a < b byte by byte, a proper prefix first
str_lt(a, b) ==
    \E k \in 1..Len(b) :
        /\ Len(a) >= k - 1
        /\ \A j \in 1..(k - 1) : a[j] = b[j]
        /\ (Len(a) = k - 1 \/ a[k] < b[k])

\* the number of rows of v whose name is below the name of v[k]
name_rank(v, k) ==
    Cardinality({j \in 1..Len(v) : str_lt(v[j].class_name, v[k].class_name)})

\* the place of v[k] after a stable sort by decreasing key
sorted_position(v, key, k) ==
    1 + Cardinality({j \in 1..Len(v) : key[j] > key[k]})
      + Cardinality({j \in 1..(k - 1) : key[j] = key[k]})

\* a sort that puts equal keys in the opposite of their order
sort_by_unstable(v, key) ==
    [q \in 1..Len(v) |->
        v[CHOOSE k \in 1..Len(v) :
              q = 1 + Cardinality({j \in 1..Len(v) : key[j] > key[k]})
                    + Cardinality({j \in (k + 1)..Len(v) : key[j] = key[k]})]]

\* v.sort_by(|a, b| b.key.cmp(&a.key)): decreasing keys, equal keys in the
\* order they had
sort_by(v, key) ==
    [q \in 1..Len(v) |-> v[CHOOSE k \in 1..Len(v) : sorted_position(v, key, k) = q]]

sort_by_name(v) == sort_by(v, [k \in 1..Len(v) |-> name_rank(v, k)])
sort_by_total(v) == sort_by(v, [k \in 1..Len(v) |-> v[k].total])
sort_by_largest(v) == sort_by(v, [k \in 1..Len(v) |-> v[k].largest])

\* the rows of classes_dump_vec in the order they are computed: instances
\* (collected first), primitive arrays, object arrays, each map in its
\* iteration order
memory_rows(st, id_size, oc, ord) ==
    [k \in 1..Len(ord.i) |-> instance_row(st, id_size, ord.i[k], oc)]
        \o [k \in 1..Len(ord.p) |-> primitive_array_row(st, id_size, ord.p[k])]
        \o [k \in 1..Len(ord.o) |-> object_array_row(st, id_size, ord.o[k], oc)]

\* rows.iter().take(top)
iter_take(rows, n) == SubSeq(rows, 1, IF n < Len(rows) THEN n ELSE Len(rows))

\* tables that show every row, whatever top is
render_table_rows_all(v, n) ==
    [allocated |-> sort_by_total(sort_by_name(v)),
     largest |-> sort_by_largest(sort_by_total(sort_by_name(v)))]

\* the two tables of render_memory_usage: the rows sorted by name, then by
\* total size, then by largest size; render_table shows the first top rows
render_table_rows(v, n) ==
    [allocated |-> iter_take(sort_by_total(sort_by_name(v)), n),
     largest |-> iter_take(sort_by_largest(sort_by_total(sort_by_name(v))), n)]

\* JsonResult::new on the vector memory_usage
JsonResult_new(memory_usage, n) ==
    [top_allocated_classes |-> iter_take(sort_by_total(memory_usage), n),
     top_largest_instances |-> iter_take(sort_by_largest(sort_by_total(memory_usage)), n)]

\* classes_dump_vec.iter().map(|(_, _, _, s)| *s).sum()
RECURSIVE total_size(_)
total_size(v) == IF v = <<>> THEN 0 ELSE Head(v).total + total_size(Tail(v))

\* the outcome of render_memory_usage on the computed rows rs: the first row
\* that panics or never ends decides; render_table panics ("Results can't
\* be empty") when there is no row at all; the JSON arrays are made of the
\* rows as the sort by name leaves them
render_rows(rs, n) ==
    IF \E k \in 1..Len(rs) : rs[k].res # "Ok"
    THEN [res |-> rs[CHOOSE k \in 1..Len(rs) :
                        /\ rs[k].res # "Ok"
                        /\ \A j \in 1..(k - 1) : rs[j].res = "Ok"].res]
    ELSE IF rs = <<>> THEN Panic
    ELSE [res |-> "Ok",
          total_size |-> total_size([k \in 1..Len(rs) |-> rs[k].row]),
          rows |-> render_table_rows([k \in 1..Len(rs) |-> rs[k].row], n),
          json |-> JsonResult_new(sort_by_name([k \in 1..Len(rs) |-> rs[k].row]), n)]

\* render_memory_usage with the maps iterated in the orders ord
render_memory_usage(st, id_size, oc, ord, n) ==
    render_rows(memory_rows(st, id_size, oc, ord), n)

\* render_thread_info panics when a frame of a non-empty stack trace, its
\* class serial number or the name of its class is unknown
render_thread_info_panics(st) ==
    \E s \in DOMAIN st.stack_trace_by_serial_number :
        \E k \in DOMAIN st.stack_trace_by_serial_number[s].stack_frame_ids :
            LET f == st.stack_trace_by_serial_number[s].stack_frame_ids[k]
            IN  \/ f \notin DOMAIN st.stack_frame_by_id
                \/ st.stack_frame_by_id[f].class_serial_number
                       \notin DOMAIN st.class_data_by_serial_number
                \/ ~class_name_known(st,
                       st.class_data[st.class_data_by_serial_number[
                           st.stack_frame_by_id[f].class_serial_number]].class_object_id)

None == [some |-> FALSE]
Some(v) == [some |-> TRUE, value |-> v]

\* the figures of the line "Found .. duplicated strings out of .. unique
\* strings" for all_len values of which dedup_len are left by dedup
duplicated_strings_line(all_len, dedup_len) ==
    IF all_len = dedup_len THEN None
    ELSE Some([duplicated |-> all_len - dedup_len, out_of |-> all_len])

\* a count of the duplicates among the (id, value) entries of the map
render_duplicated_entries(st) ==
    duplicated_strings_line(
        Cardinality(DOMAIN st.utf8_strings_by_id),
        Cardinality({<<k, st.utf8_strings_by_id[k]>> : k \in DOMAIN st.utf8_strings_by_id}))

\* render_duplicated_strings: the values of the map are sorted and
\* deduplicated, which leaves one of each distinct value
render_duplicated_strings(st) ==
    duplicated_strings_line(
        Cardinality(DOMAIN st.utf8_strings_by_id),
        Cardinality({st.utf8_strings_by_id[k] : k \in DOMAIN st.utf8_strings_by_id}))

\* render_summary: the figures of the summary, line by line
render_summary(st) ==
    [utf8_strings |-> Cardinality(DOMAIN st.utf8_strings_by_id),
     classes_loaded |-> Cardinality(DOMAIN st.class_data_by_id),
     classes_unloaded |-> st.classes_unloaded,
     stack_traces |-> st.stack_traces,
     stack_frames |-> st.stack_frames,
     start_threads |-> st.start_threads,
     allocation_sites |-> st.allocation_sites,
     end_threads |-> st.end_threads,
     control_settings |-> st.control_settings,
     cpu_samples |-> st.cpu_samples,
     heap_summaries |-> st.heap_summaries,
     heap_dumps |-> st.heap_dumps,
     segments |-> st.heap_dump_segments_all_sub_records,
     gc_root_unknown |-> st.heap_dump_segments_gc_root_unknown,
     gc_root_thread_objects |-> st.heap_dump_segments_gc_root_thread_object,
     gc_root_jni_global |-> st.heap_dump_segments_gc_root_jni_global,
     gc_root_jni_local |-> st.heap_dump_segments_gc_root_jni_local,
     gc_root_java_frame |-> st.heap_dump_segments_gc_root_java_frame,
     gc_root_native_stack |-> st.heap_dump_segments_gc_root_native_stack,
     gc_root_sticky_class |-> st.heap_dump_segments_gc_root_sticky_class,
     gc_root_thread_block |-> st.heap_dump_segments_gc_root_thread_block,
     gc_root_monitor_used |-> st.heap_dump_segments_gc_root_monitor_used,
     gc_primitive_array_dump |-> st.heap_dump_segments_gc_primitive_array_dump,
     gc_object_array_dump |-> st.heap_dump_segments_gc_object_array_dump,
     gc_class_dump |-> st.heap_dump_segments_gc_class_dump,
     gc_instance_dump |-> st.heap_dump_segments_gc_instance_dump]

\* the RenderedResult built at the end of ResultRecorder::start, and the
\* JSON arrays made of its rows
render(st, id_size, oc, ord, n) ==
    IF render_thread_info_panics(st) THEN Panic
    ELSE and_then(render_memory_usage(st, id_size, oc, ord, n), LAMBDA m :
             [res |-> "Ok",
              result |-> [summary |-> render_summary(st),
                          total_size |-> m.total_size,
                          memory_usage |-> m.rows,
                          json |-> m.json,
                          duplicated_strings |-> render_duplicated_strings(st)]])

\* ------------------------------------------------------------------------
\* Dump files: the byte layouts the parsers above decode
\* ------------------------------------------------------------------------

\* v as w big-endian bytes
RECURSIVE enc(_, _)
enc(v, w) == IF w = 0 THEN <<>> ELSE enc(v \div 256, w - 1) \o <<v % 256>>

RECURSIVE concat(_)
concat(ss) == IF ss = <<>> THEN <<>> ELSE Head(ss) \o concat(Tail(ss))

\* "JAVA PROFILE 1.0.2"
FormatName == <<74, 65, 86, 65, 32, 80, 82, 79, 70, 73, 76, 69, 32, 49, 46, 48, 46, 50>>

\* a file header whose format name has fmt_len characters
header_bytes(fmt_len, id_size) ==
    [k \in 1..fmt_len |-> IF k <= Len(FormatName) THEN FormatName[k] ELSE 48]
        \o <<0>> \o enc(id_size, 4) \o enc(0, 8)

\* a top-level record: tag, time, length, body
record_bytes(tag, body) == <<tag>> \o enc(0, 4) \o enc(Len(body), 4) \o body

utf8_bytes(id, str) == record_bytes(TAG_STRING, enc(id, 8) \o str)

load_class_bytes(serial, class_object_id, class_name_id) ==
    record_bytes(TAG_LOAD_CLASS,
                 enc(serial, 4) \o enc(class_object_id, 8) \o enc(0, 4) \o enc(class_name_id, 8))

unload_class_bytes(serial) == record_bytes(TAG_UNLOAD_CLASS, enc(serial, 4))

heap_dump_end_bytes == record_bytes(TAG_HEAP_DUMP_END, <<>>)

stack_frame_bytes(stack_frame_id) ==
    record_bytes(TAG_STACK_FRAME,
                 enc(stack_frame_id, 8) \o enc(1, 8) \o enc(2, 8) \o enc(3, 8)
                     \o enc(1, 4) \o enc(10, 4))

\* a stack trace of n frames
stack_trace_bytes(n) ==
    record_bytes(TAG_STACK_TRACE,
                 enc(1, 4) \o enc(1, 4) \o enc(n, 4) \o concat([j \in 1..n |-> enc(j, 8)]))

start_thread_bytes ==
    record_bytes(TAG_START_THREAD,
                 enc(1, 4) \o enc(2, 8) \o enc(1, 4) \o enc(3, 8) \o enc(4, 8) \o enc(5, 8))

heap_summary_bytes ==
    record_bytes(TAG_HEAP_SUMMARY, enc(1, 4) \o enc(1, 4) \o enc(1, 8) \o enc(1, 8))

end_thread_bytes == record_bytes(TAG_END_THREAD, enc(1, 4))

\* allocation sites: the fixed part, then n sites of 25 bytes
allocation_sites_bytes(n) ==
    record_bytes(TAG_ALLOC_SITES,
                 enc(0, 2) \o enc(0, 4) \o enc(0, 4) \o enc(0, 4) \o enc(0, 8) \o enc(0, 8)
                     \o enc(n, 4)
                     \o concat([j \in 1..n |->
                                   <<0>> \o enc(j, 4) \o enc(1, 4) \o enc(0, 4) \o enc(0, 4)
                                       \o enc(0, 4) \o enc(0, 4)]))

control_settings_bytes == record_bytes(TAG_CONTROL_SETTING, enc(1, 4) \o enc(2, 2))

\* CPU samples: traces entries of c samples each, traces * c samples in all
cpu_samples_bytes(traces, c) ==
    record_bytes(TAG_CPU_SAMPLES,
                 enc(traces * c, 4) \o enc(traces, 4)
                     \o concat([j \in 1..traces |-> enc(c, 4) \o enc(j, 4)]))

root_unknown_bytes(id) == <<TAG_GC_ROOT_UNKNOWN>> \o enc(id, 8)

\* a class dump without constants, static fields or instance fields
class_dump_bytes(class_object_id, super_class_object_id, instance_size) ==
    <<TAG_GC_CLASS_DUMP>> \o enc(class_object_id, 8) \o enc(0, 4)
        \o enc(super_class_object_id, 8) \o enc(0, 8) \o enc(0, 8) \o enc(0, 8)
        \o enc(0, 8) \o enc(0, 8) \o enc(instance_size, 4)
        \o enc(0, 2) \o enc(0, 2) \o enc(0, 2)

instance_dump_bytes(object_id, class_object_id, data) ==
    <<TAG_GC_INSTANCE_DUMP>> \o enc(object_id, 8) \o enc(0, 4)
        \o enc(class_object_id, 8) \o enc(Len(data), 4) \o data

primitive_array_dump_bytes(object_id, element_type, number_of_elements, data) ==
    <<TAG_GC_PRIM_ARRAY_DUMP>> \o enc(object_id, 8) \o enc(0, 4)
        \o enc(number_of_elements, 4) \o <<element_type>> \o data

\* a header alone: no record at all
HeaderOnly == header_bytes(18, 8)

\* one segment with a byte array of one element, then the end record
PrimDump ==
    HeaderOnly
        \o record_bytes(TAG_HEAP_DUMP_SEGMENT,
                        primitive_array_dump_bytes(7, FieldType_Byte, 1, <<42>>))
        \o heap_dump_end_bytes

\* a class named "a/B" with one instance, between roots and an unload
ClassDumpFile ==
    HeaderOnly
        \o utf8_bytes(1, <<97, 47, 66>>)
        \o load_class_bytes(1, 16, 1)
        \o record_bytes(TAG_HEAP_DUMP,
                        root_unknown_bytes(5) \o class_dump_bytes(16, 0, 4)
                            \o instance_dump_bytes(9, 16, <<0, 0, 0, 1>>))
        \o heap_dump_end_bytes
        \o unload_class_bytes(3)

\* records but no instance and no array
RootsOnly ==
    HeaderOnly \o unload_class_bytes(3)
        \o record_bytes(TAG_HEAP_DUMP, root_unknown_bytes(5))
        \o heap_dump_end_bytes

\* an instance whose class was never loaded
OrphanInstance ==
    HeaderOnly
        \o record_bytes(TAG_HEAP_DUMP_SEGMENT, instance_dump_bytes(9, 16, <<>>))
        \o heap_dump_end_bytes

\* two classes named "a/B" (two class loaders): two instances of 24 bytes
\* of the one, one instance of 48 bytes of the other
TwinClasses ==
    HeaderOnly
        \o utf8_bytes(1, <<97, 47, 66>>)
        \o load_class_bytes(1, 16, 1)
        \o load_class_bytes(2, 17, 1)
        \o record_bytes(TAG_HEAP_DUMP,
                        class_dump_bytes(16, 0, 8) \o class_dump_bytes(17, 0, 32)
                            \o instance_dump_bytes(9, 16, <<>>)
                            \o instance_dump_bytes(10, 16, <<>>)
                            \o instance_dump_bytes(11, 17, <<>>))

\* one record of every top-level kind, a string id and a class id that
\* come twice, a root and an array
AllKinds ==
    HeaderOnly
        \o utf8_bytes(1, <<66>>) \o utf8_bytes(1, <<67>>)
        \o load_class_bytes(1, 16, 1) \o load_class_bytes(2, 16, 1)
        \o unload_class_bytes(1)
        \o stack_frame_bytes(1) \o stack_trace_bytes(0)
        \o start_thread_bytes \o end_thread_bytes
        \o heap_summary_bytes \o allocation_sites_bytes(0)
        \o control_settings_bytes \o cpu_samples_bytes(0, 1)
        \o record_bytes(TAG_HEAP_DUMP_SEGMENT,
                        root_unknown_bytes(5)
                            \o primitive_array_dump_bytes(7, FieldType_Int, 1, <<0, 0, 0, 1>>))
        \o heap_dump_end_bytes

\* arrays of three primitive types: the type with the greatest total size
\* is not the type with the largest array
MixedArrays ==
    HeaderOnly
        \o record_bytes(TAG_HEAP_DUMP,
                        primitive_array_dump_bytes(7, FieldType_Byte, 1, <<42>>)
                            \o primitive_array_dump_bytes(8, FieldType_Byte, 1, <<43>>)
                            \o primitive_array_dump_bytes(9, FieldType_Long, 2,
                                                          enc(1, 8) \o enc(2, 8))
                            \o primitive_array_dump_bytes(10, FieldType_Int, 1, enc(1, 4)))
        \o heap_dump_end_bytes

\* two ids with the same string, and an id recorded twice
DupStrings ==
    HeaderOnly
        \o utf8_bytes(1, <<66>>) \o utf8_bytes(2, <<66>>)
        \o utf8_bytes(3, <<67>>) \o utf8_bytes(3, <<67>>)
        \o record_bytes(TAG_HEAP_DUMP_SEGMENT,
                        primitive_array_dump_bytes(7, FieldType_Byte, 1, <<42>>))
        \o heap_dump_end_bytes

\* the dumps that follow the grammar from the first byte to the last
ValidFiles ==
    {HeaderOnly, PrimDump, ClassDumpFile, RootsOnly, OrphanInstance, TwinClasses, AllKinds}

\* PrimDump cut in the middle of its final record
TruncatedFinal == SubSeq(PrimDump, 1, Len(PrimDump) - 4)

\* PrimDump cut in the middle of its only sub-record
TruncatedSub == SubSeq(PrimDump, 1, Len(PrimDump) - 12)

TruncatedFiles == {TruncatedFinal, TruncatedSub}

\* a record with a tag the grammar does not know, between valid records
UnknownTag == PrimDump \o record_bytes(99, <<1, 2>>) \o unload_class_bytes(4)

\* a sub-record with a tag the grammar does not know, after a valid one
UnknownSubTag ==
    HeaderOnly \o unload_class_bytes(3)
        \o record_bytes(TAG_HEAP_DUMP_SEGMENT,
                        primitive_array_dump_bytes(7, FieldType_Byte, 1, <<42>>) \o <<77, 0, 0>>)
        \o heap_dump_end_bytes

\* a primitive array whose element type is Object, after a valid one
PrimArrayOfObject ==
    HeaderOnly
        \o record_bytes(TAG_HEAP_DUMP_SEGMENT,
                        primitive_array_dump_bytes(7, FieldType_Byte, 1, <<42>>)
                            \o primitive_array_dump_bytes(8, FieldType_Object, 1,
                                                          <<0, 0, 0, 0, 0, 0, 0, 0>>))
        \o heap_dump_end_bytes

MalformedFiles == {UnknownTag, UnknownSubTag, PrimArrayOfObject}

\* a segment that declares 5 bytes and holds a sub-record of 19, at the
\* end of the file
ShortSegment ==
    HeaderOnly
        \o <<TAG_HEAP_DUMP>> \o enc(0, 4) \o enc(5, 4)
        \o primitive_array_dump_bytes(7, FieldType_Byte, 1, <<42>>)

\* the dumps whose segment length is not the length of its sub-records
MisframedFiles == {ShortSegment}

\* a loaded and named class with an instance and no class dump
NoClassDump ==
    HeaderOnly
        \o utf8_bytes(1, <<66>>)
        \o load_class_bytes(1, 16, 1)
        \o record_bytes(TAG_HEAP_DUMP, instance_dump_bytes(9, 16, <<>>))

\* a class with an instance whose super class 99 has no class dump
UnknownAncestor ==
    HeaderOnly
        \o utf8_bytes(1, <<66>>)
        \o load_class_bytes(1, 16, 1)
        \o record_bytes(TAG_HEAP_DUMP,
                        class_dump_bytes(16, 99, 4) \o instance_dump_bytes(9, 16, <<>>))

\* the dumps with an instance whose class, or an ancestor of it, has no
\* class dump
UnresolvedFiles == {OrphanInstance, NoClassDump, UnknownAncestor}

\* a class that is its own super class, with an instance size of 0
SelfSuper ==
    HeaderOnly
        \o utf8_bytes(1, <<66>>)
        \o load_class_bytes(1, 16, 1)
        \o record_bytes(TAG_HEAP_DUMP,
                        class_dump_bytes(16, 16, 0) \o instance_dump_bytes(9, 16, <<>>))

\* two classes, each the super class of the other, one of instance size 4
CyclicClasses ==
    HeaderOnly
        \o utf8_bytes(1, <<66>>)
        \o load_class_bytes(1, 16, 1)
        \o record_bytes(TAG_HEAP_DUMP,
                        class_dump_bytes(16, 17, 4) \o class_dump_bytes(17, 16, 0)
                            \o instance_dump_bytes(9, 16, <<>>))

\* the dumps whose super classes form a cycle
CyclicFiles == {SelfSuper, CyclicClasses}

\* files the header checks reject
Id4File == header_bytes(18, 4) \o unload_class_bytes(3)
Id5File == header_bytes(18, 5) \o unload_class_bytes(3)
ShortFormatFile == header_bytes(17, 8) \o unload_class_bytes(3)
ShortFormatId4File == header_bytes(17, 4) \o unload_class_bytes(3)
LongFormatFile == header_bytes(19, 8) \o unload_class_bytes(3)
ShortFile == SubSeq(HeaderOnly, 1, FILE_HEADER_LENGTH - 1)
EmptyFile == <<>>

BadHeaderFiles ==
    {Id4File, Id5File, ShortFormatFile, ShortFormatId4File, LongFormatFile, ShortFile, EmptyFile}

Files ==
    ValidFiles \cup TruncatedFiles \cup MalformedFiles \cup MisframedFiles
        \cup UnresolvedFiles \cup CyclicFiles \cup BadHeaderFiles

\* the chunk sizes the reader is run with
ReadSizes == {MaxReadSize, MaxReadSize \div 3, MaxReadSize \div 8}

\* ------------------------------------------------------------------------
\* The pipeline: driver (slurp_file), prefetch reader, stream parser,
\* result recorder, and the six channels between them
\* ------------------------------------------------------------------------

VARIABLES
    file,                    \* the bytes of the dump file
    read_size,               \* PrefetchReader.read_size
    oc,                      \* the build checks integer overflow (debug) or wraps (release)
    top,                     \* the value of --top, kept in ResultRecorder.top
    is_file,                 \* the path given to --inputFile names a file
    header_result,           \* what the call of parse_file_header under study returned
    drv_pc,                  \* where slurp_file stands
    outcome,                 \* what slurp_file returned: "Ok", an error kind, or "abort"
    report,                  \* the RenderedResult received by the driver
    pb_position,             \* the positions the progress bar was set to
    rd_pc,                   \* prefetch thread: "unspawned", "loop", "read", "done", "panicked"
    rd_processed_len,        \* PrefetchReader.processed_len
    ps_pc,                   \* parser thread: "unspawned", "recv", "recv_vec", "done", "panicked"
    loop_buffer,             \* HprofRecordStreamParser.loop_buffer
    needed,                  \* HprofRecordStreamParser.needed
    ps_processed_len,        \* HprofRecordStreamParser.processed_len
    pooled_vec,              \* HprofRecordStreamParser.pooled_vec
    heap_dump_remaining_len, \* HprofRecordParser.heap_dump_remaining_len
    rc_pc,                   \* recorder thread: "unspawned", "recv", "done", "panicked", "spinning"
    recorder,                \* the ResultRecorder fields
    ch_data,                 \* reader -> parser: chunks of the file
    ch_pooled_data,          \* parser -> reader: pooled input buffers
    ch_records,              \* parser -> recorder: batches of records
    ch_pooled_vec,           \* recorder -> parser: pooled record vectors
    ch_progress,             \* parser -> driver: processed lengths
    ch_result,               \* recorder -> driver: the rendered result
    emitted,                 \* history: the records sent on ch_records, in order
    folded,                  \* history: the records folded by the recorder, in order
    progress_sent            \* history: the values sent on ch_progress, in order

vars == <<file, read_size, oc, top, is_file, header_result, drv_pc, outcome, report, pb_position,
          rd_pc, rd_processed_len,
          ps_pc, loop_buffer, needed, ps_processed_len, pooled_vec, heap_dump_remaining_len,
          rc_pc, recorder,
          ch_data, ch_pooled_data, ch_records, ch_pooled_vec, ch_progress, ch_result,
          emitted, folded, progress_sent>>

driver_vars == <<drv_pc, outcome, report, pb_position>>
reader_vars == <<rd_pc, rd_processed_len>>
parser_vars == <<ps_pc, loop_buffer, needed, ps_processed_len, pooled_vec,
                 heap_dump_remaining_len>>
recorder_vars == <<rc_pc, recorder>>
input_vars == <<file, read_size, oc, top, is_file>>

\* a thread that returned or panicked has dropped its channel endpoints
dead(pc) == pc \in {"done", "panicked"}

NoReport == [none |-> TRUE]

\* a queue whose newest message is delivered first
send_front(ch, msg) == <<msg>> \o ch

\* Sender::send on an unbounded channel: the message joins the end of the queue
send(ch, msg) == Append(ch, msg)

InitWith(f, rs, b) ==
    /\ file = f /\ read_size = rs /\ oc = b
    /\ top = DefaultTop /\ is_file = TRUE /\ header_result = NoReport
    /\ drv_pc = "header" /\ outcome = "none" /\ report = NoReport /\ pb_position = <<>>
    /\ rd_pc = "unspawned" /\ rd_processed_len = FILE_HEADER_LENGTH
    /\ ps_pc = "unspawned" /\ loop_buffer = <<>> /\ needed = 0
    /\ ps_processed_len = FILE_HEADER_LENGTH /\ pooled_vec = <<>>
    /\ heap_dump_remaining_len = 0
    /\ rc_pc = "unspawned" /\ recorder = ResultRecorder_new
    /\ ch_data = <<>> /\ ch_pooled_data = <<>> /\ ch_records = <<>> /\ ch_pooled_vec = <<>>
    /\ ch_progress = <<>> /\ ch_result = <<>>
    /\ emitted = <<>> /\ folded = <<>> /\ progress_sent = <<>>

Init == \E f \in Files, rs \in ReadSizes, b \in BOOLEAN : InitWith(f, rs, b)

\* slurp_file up to the header checks: an error is returned before any
\* channel or thread exists
D_header ==
    /\ drv_pc = "header"
    /\ LET h == slurp_header(file)
       IN  IF h.err # "none"
           THEN drv_pc' = "done" /\ outcome' = h.err
           ELSE drv_pc' = "spawn" /\ outcome' = outcome
    /\ UNCHANGED <<report, pb_position, input_vars, header_result, reader_vars, parser_vars, recorder_vars,
                   ch_data, ch_pooled_data, ch_records, ch_pooled_vec, ch_progress, ch_result,
                   emitted, folded, progress_sent>>

\* slurp_file from the creation of the channels to the start of the third
\* thread: two pooled input buffers, one pooled record vector
D_spawn ==
    /\ drv_pc = "spawn"
    /\ drv_pc' = "progress"
    /\ ch_pooled_data' = <<<<>>, <<>>>>
    /\ ch_pooled_vec' = <<<<>>>>
    /\ rd_pc' = "loop" /\ ps_pc' = "recv" /\ rc_pc' = "recv"
    /\ UNCHANGED <<outcome, report, pb_position, input_vars, header_result, rd_processed_len,
                   loop_buffer, needed, ps_processed_len, pooled_vec, heap_dump_remaining_len,
                   recorder, ch_data, ch_records, ch_progress, ch_result,
                   emitted, folded, progress_sent>>

\* while let Ok(processed) = receive_progress.recv(): the loop ends when the
\* channel is empty and the parser has dropped its sender
D_progress ==
    /\ drv_pc = "progress"
    /\ IF ch_progress # <<>>
       THEN /\ pb_position' = Append(pb_position, Head(ch_progress))
            /\ ch_progress' = Tail(ch_progress)
            /\ drv_pc' = drv_pc
       ELSE /\ dead(ps_pc)
            /\ drv_pc' = "result"
            /\ UNCHANGED <<pb_position, ch_progress>>
    /\ UNCHANGED <<outcome, report, input_vars, header_result, reader_vars, parser_vars, recorder_vars,
                   ch_data, ch_pooled_data, ch_records, ch_pooled_vec, ch_result,
                   emitted, folded, progress_sent>>

\* receive_result.recv().expect(..): the driver panics when the recorder
\* dropped its sender without sending
D_result ==
    /\ drv_pc = "result"
    /\ IF ch_result # <<>>
       THEN /\ report' = Head(ch_result)
            /\ ch_result' = Tail(ch_result)
            /\ drv_pc' = "join_prefetch"
            /\ outcome' = outcome
       ELSE /\ dead(rc_pc)
            /\ drv_pc' = "done"
            /\ outcome' = "abort"
            /\ UNCHANGED <<report, ch_result>>
    /\ UNCHANGED <<pb_position, input_vars, header_result, reader_vars, parser_vars, recorder_vars,
                   ch_data, ch_pooled_data, ch_records, ch_pooled_vec, ch_progress,
                   emitted, folded, progress_sent>>

\* thread.join().map_err(StdThreadError)?: blocks until the thread is dead
join(pc, next) ==
    /\ dead(pc)
    /\ IF pc = "panicked"
       THEN drv_pc' = "done" /\ outcome' = "StdThreadError" /\ report' = NoReport
       ELSE /\ drv_pc' = next
            /\ outcome' = IF next = "done" THEN "Ok" ELSE outcome
            /\ report' = report
    /\ UNCHANGED <<pb_position, input_vars, header_result, reader_vars, parser_vars, recorder_vars,
                   ch_data, ch_pooled_data, ch_records, ch_pooled_vec, ch_progress, ch_result,
                   emitted, folded, progress_sent>>

D_join_prefetch == drv_pc = "join_prefetch" /\ join(rd_pc, "join_parser")
D_join_parser == drv_pc = "join_parser" /\ join(ps_pc, "join_recorder")
D_join_recorder == drv_pc = "join_recorder" /\ join(rc_pc, "done")

\* a reader that reads all that is left of the file into one buffer
next_chunk_whole(f, processed, size) == SubSeq(f, processed + 1, Len(f))

\* the next chunk PrefetchReader reads: min(remaining, read_size) bytes
next_chunk(f, processed, size) ==
    LET remaining == Len(f) - processed
        next_size == IF remaining > size THEN size ELSE remaining
    IN  SubSeq(f, processed + 1, processed + next_size)

\* a reader that allocates a fresh buffer instead of waiting for a pooled one
R_recv_pooled_fresh ==
    /\ rd_pc = "loop"
    /\ rd_processed_len # Len(file)
    /\ rd_pc' = "read"
    /\ UNCHANGED <<rd_processed_len, ch_pooled_data, ch_data,
                   driver_vars, input_vars, header_result, parser_vars, recorder_vars,
                   ch_records, ch_pooled_vec, ch_progress, ch_result,
                   emitted, folded, progress_sent>>

\* the first half of an iteration of the loop of PrefetchReader::start:
\* receive_pooled_data.recv().expect(..) blocks until a pooled buffer is
\* there and panics when the channel is empty and the parser has dropped
\* its sender; from then on the reader holds the buffer
R_recv_pooled ==
    /\ rd_pc = "loop"
    /\ rd_processed_len # Len(file)
    /\ IF ch_pooled_data = <<>>
       THEN /\ dead(ps_pc)
            /\ rd_pc' = "panicked"
            /\ UNCHANGED ch_pooled_data
       ELSE /\ ch_pooled_data' = Tail(ch_pooled_data)
            /\ rd_pc' = "read"
    /\ UNCHANGED <<rd_processed_len, ch_data,
                   driver_vars, input_vars, header_result, parser_vars, recorder_vars,
                   ch_records, ch_pooled_vec, ch_progress, ch_result,
                   emitted, folded, progress_sent>>

\* the second half: fill the buffer from the file and send it; the send
\* panics when the parser has dropped its receiver
R_read ==
    /\ rd_pc = "read"
    /\ IF dead(ps_pc)
       THEN rd_pc' = "panicked" /\ UNCHANGED <<rd_processed_len, ch_data>>
       ELSE LET chunk == next_chunk(file, rd_processed_len, read_size)
            IN  /\ ch_data' = send(ch_data, chunk)
                /\ rd_processed_len' = rd_processed_len + Len(chunk)
                /\ rd_pc' = "loop"
    /\ UNCHANGED <<ch_pooled_data, driver_vars, input_vars, header_result, parser_vars, recorder_vars,
                   ch_records, ch_pooled_vec, ch_progress, ch_result,
                   emitted, folded, progress_sent>>

\* the loop condition of PrefetchReader::start fails: the thread returns
R_exit ==
    /\ rd_pc = "loop"
    /\ rd_processed_len = Len(file)
    /\ rd_pc' = "done"
    /\ UNCHANGED <<rd_processed_len, driver_vars, input_vars, header_result, parser_vars, recorder_vars,
                   ch_data, ch_pooled_data, ch_records, ch_pooled_vec, ch_progress, ch_result,
                   emitted, folded, progress_sent>>

\* a parser loop that forgets its carry-over when a record is incomplete
on_parsed_forgetful(r, lb, nd, processed, remaining, vec, file_len) ==
    CASE r.res = "Ok" ->
           [step |-> "parsed", loop_buffer |-> SubSeq(lb, r.pos + 1, Len(lb)),
            needed |-> nd, processed_len |-> processed + r.pos,
            pooled_vec |-> r.vec, remaining |-> r.remaining]
      [] r.res = "Incomplete" /\ r.n > 0 ->
           [step |-> "continue", loop_buffer |-> <<>>, needed |-> r.n,
            processed_len |-> processed, pooled_vec |-> vec, remaining |-> remaining]
      [] OTHER -> [step |-> "panicked"]

\* a parser loop that counts the whole loop buffer as processed instead of
\* the bytes the batch consumed
on_parsed_whole_buffer(r, lb, nd, processed, remaining, vec, file_len) ==
    CASE r.res = "Ok" ->
           IF processed + Len(lb) > file_len
           THEN [step |-> "panicked"]
           ELSE [step |-> "parsed", loop_buffer |-> SubSeq(lb, r.pos + 1, Len(lb)),
                 needed |-> nd, processed_len |-> processed + Len(lb),
                 pooled_vec |-> r.vec, remaining |-> r.remaining]
      [] r.res = "Incomplete" /\ r.n > 0 ->
           [step |-> "continue", loop_buffer |-> lb, needed |-> sat_add(r.n, Len(lb)),
            processed_len |-> processed, pooled_vec |-> vec, remaining |-> remaining]
      [] OTHER -> [step |-> "panicked"]

\* the body of the loop of HprofRecordStreamParser::start once a chunk has
\* been appended to the loop buffer lb, up to the send on the progress
\* channel: what becomes of the parser's fields
\*   "continue"  the chunk is kept, more data is awaited
\*   "parsed"    a batch was decoded and consumed bytes were drained
\*   "panicked"  the thread panics
\* on_parsed is the match on the result r of parse_streaming, on_chunk the
\* whole step
on_parsed(r, lb, nd, processed, remaining, vec, file_len) ==
    CASE r.res = "Ok" ->
           IF processed + r.pos > file_len
           THEN [step |-> "panicked"]
           ELSE [step |-> "parsed", loop_buffer |-> SubSeq(lb, r.pos + 1, Len(lb)),
                 needed |-> nd, processed_len |-> processed + r.pos,
                 pooled_vec |-> r.vec, remaining |-> r.remaining]
      [] r.res = "Incomplete" /\ r.n > 0 ->
           [step |-> "continue", loop_buffer |-> lb, needed |-> sat_add(r.n, Len(lb)),
            processed_len |-> processed, pooled_vec |-> vec, remaining |-> remaining]
      [] OTHER -> [step |-> "panicked"]

on_chunk(lb, nd, processed, remaining, vec, file_len, b) ==
    IF nd > Len(lb)
    THEN [step |-> "continue", loop_buffer |-> lb, needed |-> nd, processed_len |-> processed,
          pooled_vec |-> vec, remaining |-> remaining]
    ELSE on_parsed(parse_streaming(lb, remaining, b, vec), lb, nd, processed, remaining, vec,
                   file_len)

\* what the parser thread does with the outcome s of on_chunk: it panics,
\* waits for more data, or sends its progress and goes on to the exchange
\* of vectors
P_apply(s) ==
    IF s.step = "panicked"
    THEN /\ ps_pc' = "panicked"
         /\ UNCHANGED <<loop_buffer, needed, ps_processed_len, pooled_vec,
                        heap_dump_remaining_len, ch_progress, progress_sent>>
    ELSE /\ loop_buffer' = s.loop_buffer
         /\ needed' = s.needed
         /\ ps_processed_len' = s.processed_len
         /\ pooled_vec' = s.pooled_vec
         /\ heap_dump_remaining_len' = s.remaining
         /\ IF s.step = "parsed"
            THEN /\ ps_pc' = "recv_vec"
                 /\ ch_progress' = send(ch_progress, s.processed_len)
                 /\ progress_sent' = Append(progress_sent, s.processed_len)
            ELSE /\ ps_pc' = ps_pc
                 /\ UNCHANGED <<ch_progress, progress_sent>>

\* a parser that fails when it hands a buffer back to a reader that has
\* returned
P_recv_strict ==
    /\ ps_pc = "recv"
    /\ IF ch_data = <<>>
       THEN /\ dead(rd_pc)
            /\ ps_pc' = "done"
            /\ UNCHANGED <<loop_buffer, needed, ps_processed_len, pooled_vec,
                           heap_dump_remaining_len, ch_data, ch_pooled_data, ch_progress,
                           progress_sent>>
       ELSE /\ ch_data' = Tail(ch_data)
            /\ IF dead(rd_pc)
               THEN /\ ps_pc' = "panicked"
                    /\ UNCHANGED <<loop_buffer, needed, ps_processed_len, pooled_vec,
                                   heap_dump_remaining_len, ch_pooled_data, ch_progress,
                                   progress_sent>>
               ELSE /\ ch_pooled_data' = send(ch_pooled_data, <<>>)
                    /\ P_apply(on_chunk(loop_buffer \o Head(ch_data), needed,
                                        ps_processed_len, heap_dump_remaining_len,
                                        pooled_vec, Len(file), oc))
    /\ UNCHANGED <<driver_vars, input_vars, header_result, reader_vars, recorder_vars,
                   ch_records, ch_pooled_vec, ch_result, emitted, folded>>

\* one iteration of the loop of HprofRecordStreamParser::start, from
\* receive_data.recv() to the send on the progress channel
P_recv ==
    /\ ps_pc = "recv"
    /\ IF ch_data = <<>>
       THEN /\ dead(rd_pc)
            /\ ps_pc' = "done"
            /\ UNCHANGED <<loop_buffer, needed, ps_processed_len, pooled_vec,
                           heap_dump_remaining_len, ch_data, ch_pooled_data, ch_progress,
                           progress_sent>>
       ELSE /\ ch_data' = Tail(ch_data)
            /\ ch_pooled_data' = IF dead(rd_pc) THEN ch_pooled_data
                                 ELSE send(ch_pooled_data, <<>>)
            /\ P_apply(on_chunk(loop_buffer \o Head(ch_data), needed, ps_processed_len,
                                heap_dump_remaining_len, pooled_vec, Len(file), oc))
    /\ UNCHANGED <<driver_vars, input_vars, header_result, reader_vars, recorder_vars,
                   ch_records, ch_pooled_vec, ch_result, emitted, folded>>

\* a parser that sends its batch without waiting for a recycled vector
P_recv_vec_fresh ==
    /\ ps_pc = "recv_vec"
    /\ IF dead(rc_pc)
       THEN ps_pc' = "panicked" /\ UNCHANGED <<pooled_vec, needed, ch_records, emitted>>
       ELSE /\ ch_records' = send(ch_records, pooled_vec)
            /\ emitted' = emitted \o pooled_vec
            /\ pooled_vec' = <<>>
            /\ needed' = 0
            /\ ps_pc' = "recv"
    /\ UNCHANGED <<loop_buffer, ps_processed_len, heap_dump_remaining_len, ch_pooled_vec,
                   driver_vars, input_vars, header_result, reader_vars, recorder_vars,
                   ch_data, ch_pooled_data, ch_progress, ch_result, folded, progress_sent>>

\* the rest of the iteration: receive a pooled vector, swap it with the
\* batch, send the batch, reset needed
P_recv_vec ==
    /\ ps_pc = "recv_vec"
    /\ IF ch_pooled_vec = <<>>
       THEN /\ dead(rc_pc)
            /\ ps_pc' = "panicked"
            /\ UNCHANGED <<pooled_vec, needed, ch_pooled_vec, ch_records, emitted>>
       ELSE /\ ch_pooled_vec' = Tail(ch_pooled_vec)
            /\ IF dead(rc_pc)
               THEN ps_pc' = "panicked" /\ UNCHANGED <<pooled_vec, needed, ch_records, emitted>>
               ELSE /\ ch_records' = send(ch_records, pooled_vec)
                    /\ emitted' = emitted \o pooled_vec
                    /\ pooled_vec' = Head(ch_pooled_vec)
                    /\ needed' = 0
                    /\ ps_pc' = "recv"
    /\ UNCHANGED <<loop_buffer, ps_processed_len, heap_dump_remaining_len,
                   driver_vars, input_vars, header_result, reader_vars, recorder_vars,
                   ch_data, ch_pooled_data, ch_progress, ch_result, folded, progress_sent>>

\* the end of ResultRecorder::start on the outcome r of the rendering: the
\* result is sent, or the thread panics, or it never leaves the rendering
RC_render(r) ==
    CASE r.res = "Ok" -> rc_pc' = "done" /\ ch_result' = send(ch_result, r.result)
      [] r.res = "Panic" -> rc_pc' = "panicked" /\ ch_result' = ch_result
      [] OTHER -> rc_pc' = "spinning" /\ ch_result' = ch_result

\* a recorder that hands the vector back with its records in it
RC_recv_uncleared ==
    /\ rc_pc = "recv"
    /\ IF ch_records # <<>>
       THEN /\ recorder' = record_records(recorder, Head(ch_records))
            /\ folded' = folded \o Head(ch_records)
            /\ ch_records' = Tail(ch_records)
            /\ ch_pooled_vec' = IF dead(ps_pc) THEN ch_pooled_vec
                                ELSE send(ch_pooled_vec, Head(ch_records))
            /\ UNCHANGED <<rc_pc, ch_result>>
       ELSE /\ dead(ps_pc)
            /\ \E ord \in hash_orders(recorder) :
                   RC_render(render(recorder, slurp_header(file).header.size_pointers, oc, ord,
                                    top))
            /\ UNCHANGED <<recorder, folded, ch_records, ch_pooled_vec>>
    /\ UNCHANGED <<driver_vars, input_vars, header_result, reader_vars, parser_vars,
                   ch_data, ch_pooled_data, ch_progress, emitted, progress_sent>>

\* one iteration of the loop of ResultRecorder::start: fold a batch and send
\* the cleared vector back, or, when the records channel is closed and
\* empty, render and send the result
RC_recv ==
    /\ rc_pc = "recv"
    /\ IF ch_records # <<>>
       THEN /\ recorder' = record_records(recorder, Head(ch_records))
            /\ folded' = folded \o Head(ch_records)
            /\ ch_records' = Tail(ch_records)
            /\ ch_pooled_vec' = IF dead(ps_pc) THEN ch_pooled_vec
                                ELSE send(ch_pooled_vec, <<>>)
            /\ UNCHANGED <<rc_pc, ch_result>>
       ELSE /\ dead(ps_pc)
            /\ \E ord \in hash_orders(recorder) :
                   RC_render(render(recorder, slurp_header(file).header.size_pointers, oc, ord,
                                    top))
            /\ UNCHANGED <<recorder, folded, ch_records, ch_pooled_vec>>
    /\ UNCHANGED <<driver_vars, input_vars, header_result, reader_vars, parser_vars,
                   ch_data, ch_pooled_data, ch_progress, emitted, progress_sent>>

Next ==
    \/ D_header
    \/ D_spawn
    \/ D_progress
    \/ D_result
    \/ D_join_prefetch
    \/ D_join_parser
    \/ D_join_recorder
    \/ R_recv_pooled
    \/ R_read
    \/ R_exit
    \/ P_recv
    \/ P_recv_vec
    \/ RC_recv

Spec == Init /\ [][Next]_vars

\* ------------------------------------------------------------------------
\* The stream parser and the recorder fed by hand: the post-header bytes
\* are cut into chunks of any sizes, or handed over as one chunk
\* ------------------------------------------------------------------------

body(f) == SubSeq(f, FILE_HEADER_LENGTH + 1, Len(f))

\* the files whose header slurp_header accepts
AcceptedFiles ==
    ValidFiles \cup TruncatedFiles \cup MalformedFiles \cup MisframedFiles \cup UnresolvedFiles
        \cup CyclicFiles

FeedInit ==
    \E f \in AcceptedFiles, b \in BOOLEAN :
        /\ file = f /\ read_size = 0 /\ oc = b
        /\ top = DefaultTop /\ is_file = TRUE /\ header_result = NoReport
        /\ drv_pc = "feed" /\ outcome = "none" /\ report = NoReport /\ pb_position = <<>>
        /\ rd_pc = "loop" /\ rd_processed_len = FILE_HEADER_LENGTH
        /\ ps_pc = "recv" /\ loop_buffer = <<>> /\ needed = 0
        /\ ps_processed_len = FILE_HEADER_LENGTH /\ pooled_vec = <<>>
        /\ heap_dump_remaining_len = 0
        /\ rc_pc = "recv" /\ recorder = ResultRecorder_new
        /\ ch_data = <<>> /\ ch_pooled_data = <<<<>>, <<>>>> /\ ch_records = <<>>
        /\ ch_pooled_vec = <<<<>>>>
        /\ ch_progress = <<>> /\ ch_result = <<>>
        /\ emitted = <<>> /\ folded = <<>> /\ progress_sent = <<>>

\* the next n bytes are sent on the data channel once the parser has taken
\* the previous chunk
FeedChunk ==
    /\ drv_pc = "feed" /\ rd_pc = "loop" /\ ps_pc = "recv" /\ ch_data = <<>>
    /\ rd_processed_len < Len(file)
    /\ \E n \in (1..MaxFeed) \cup {Len(file) - rd_processed_len} :
           /\ n <= Len(file) - rd_processed_len
           /\ ch_data' = <<SubSeq(file, rd_processed_len + 1, rd_processed_len + n)>>
           /\ rd_processed_len' = rd_processed_len + n
    /\ ch_pooled_data' = Tail(ch_pooled_data)
    /\ UNCHANGED <<rd_pc, driver_vars, input_vars, header_result, parser_vars, recorder_vars,
                   ch_records, ch_pooled_vec, ch_progress, ch_result,
                   emitted, folded, progress_sent>>

\* all bytes were sent: the data channel is closed
FeedEnd ==
    /\ drv_pc = "feed" /\ rd_pc = "loop"
    /\ rd_processed_len = Len(file)
    /\ rd_pc' = "done"
    /\ UNCHANGED <<rd_processed_len, driver_vars, input_vars, header_result, parser_vars, recorder_vars,
                   ch_data, ch_pooled_data, ch_records, ch_pooled_vec, ch_progress, ch_result,
                   emitted, folded, progress_sent>>

FeedNext ==
    \/ FeedChunk
    \/ FeedEnd
    \/ P_recv
    \/ P_recv_vec
    \/ RC_recv

SpecFeed == FeedInit /\ [][FeedNext]_vars

\* ------------------------------------------------------------------------
\* The whole program: the arguments are checked, then slurp_file runs with
\* the value of --top
\* ------------------------------------------------------------------------

\* the dumps given to the program
MainFiles == {MixedArrays, DupStrings, TwinClasses, HeaderOnly}

MainInit ==
    \E f \in MainFiles, b \in BOOLEAN, n \in 0..MaxTop, e \in BOOLEAN :
        /\ file = f /\ read_size = MaxReadSize /\ oc = b
        /\ top = n /\ is_file = e /\ header_result = NoReport
        /\ drv_pc = "args" /\ outcome = "none" /\ report = NoReport /\ pb_position = <<>>
        /\ rd_pc = "unspawned" /\ rd_processed_len = FILE_HEADER_LENGTH
        /\ ps_pc = "unspawned" /\ loop_buffer = <<>> /\ needed = 0
        /\ ps_processed_len = FILE_HEADER_LENGTH /\ pooled_vec = <<>>
        /\ heap_dump_remaining_len = 0
        /\ rc_pc = "unspawned" /\ recorder = ResultRecorder_new
        /\ ch_data = <<>> /\ ch_pooled_data = <<>> /\ ch_records = <<>> /\ ch_pooled_vec = <<>>
        /\ ch_progress = <<>> /\ ch_result = <<>>
        /\ emitted = <<>> /\ folded = <<>> /\ progress_sent = <<>>

\* get_args: the path is looked up on the file system, then top is checked
get_args ==
    /\ drv_pc = "args"
    /\ IF ~is_file THEN drv_pc' = "done" /\ outcome' = "InputFileNotFound"
       ELSE IF top = 0 THEN drv_pc' = "done" /\ outcome' = "InvalidTopPositiveInt"
       ELSE drv_pc' = "header" /\ outcome' = outcome
    /\ UNCHANGED <<report, pb_position, input_vars, header_result, reader_vars, parser_vars, recorder_vars,
                   ch_data, ch_pooled_data, ch_records, ch_pooled_vec, ch_progress, ch_result,
                   emitted, folded, progress_sent>>

MainNext ==
    \/ get_args
    \/ D_header
    \/ D_spawn
    \/ D_progress
    \/ D_result
    \/ D_join_prefetch
    \/ D_join_parser
    \/ D_join_recorder
    \/ R_recv_pooled
    \/ R_read
    \/ R_exit
    \/ P_recv
    \/ P_recv_vec
    \/ RC_recv

SpecMain == MainInit /\ [][MainNext]_vars

\* ------------------------------------------------------------------------
\* Properties
\* ------------------------------------------------------------------------

IsPrefix(s, t) == Len(s) <= Len(t) /\ SubSeq(t, 1, Len(s)) = s

Last(s) == s[Len(s)]

\* the records of a byte sequence in the order of their bytes: the record
\* grammar applied from the first byte on, one record after the other, up to
\* the first record that does not decode
RECURSIVE records_from(_, _, _, _)
records_from(i, pos, remaining, b) ==
    LET r == parse_hprof_record(i, pos, remaining, b)
    IN  IF r.res # "Ok" THEN <<>>
        ELSE <<r.rec>> \o records_from(i, r.pos, r.remaining, b)

records_in_file_order == records_from(body(file), 0, 0, oc)

\* the records of the post-header bytes handed to the parser as one chunk
single_chunk_records ==
    IF body(file) = <<>> THEN <<>>
    ELSE LET r == parse_streaming(body(file), 0, oc, <<>>)
         IN  IF r.res = "Ok" THEN r.vec ELSE <<>>

HeaderErrors ==
    {"StdIoError", "InvalidHprofFile", "InvalidIdSize", "UnsupportedIdSize", "InvalidHeaderSize"}

NoWorkerSpawned == rd_pc = "unspawned" /\ ps_pc = "unspawned" /\ rc_pc = "unspawned"

SomeWorkerPanicked == "panicked" \in {rd_pc, ps_pc, rc_pc}

C3_FileOrder ==
    /\ IsPrefix(folded, emitted)
    /\ IsPrefix(emitted, records_in_file_order)
    /\ recorder = record_records(ResultRecorder_new, SubSeq(records_in_file_order, 1, Len(folded)))
    /\ (file \in ValidFiles /\ rc_pc \in {"done", "panicked"}) => folded = records_in_file_order

C3_Witness ==
    /\ file = ClassDumpFile /\ read_size < MaxReadSize /\ rc_pc = "done"
    /\ Len(folded) = 8 /\ Len(progress_sent) >= 3

\* C4: on a valid dump no thread panics, the driver does not abort, and when
\* the driver has returned it has returned Ok with a report after the three
\* workers ended normally
C4_ValidDumpCompletes ==
    file \in ValidFiles =>
        /\ ~SomeWorkerPanicked
        /\ outcome \in {"none", "Ok"}
        /\ drv_pc = "done" =>
              /\ outcome = "Ok" /\ report # NoReport
              /\ rd_pc = "done" /\ ps_pc = "done" /\ rc_pc = "done"

C4_Witness ==
    /\ file = HeaderOnly /\ rc_pc = "panicked" /\ drv_pc = "done" /\ outcome = "abort"

\* C5: a dump whose final record is cut short is rejected: slurp_file
\* returns InvalidHprofFile and no report
C5_TruncatedRejected ==
    (file = TruncatedFinal /\ drv_pc = "done") =>
        (outcome = "InvalidHprofFile" /\ report = NoReport)

C5_Witness ==
    /\ file = TruncatedFinal /\ drv_pc = "done" /\ outcome = "Ok" /\ report # NoReport
    /\ loop_buffer # <<>>

\* C6: when slurp_file has returned and a worker thread has panicked, what
\* it returned is StdThreadError
C6_WorkerFailureReported ==
    (drv_pc = "done" /\ SomeWorkerPanicked) => outcome = "StdThreadError"

C6_Witness ==
    /\ drv_pc = "done" /\ rc_pc = "panicked" /\ rd_pc = "done" /\ ps_pc = "done"
    /\ outcome = "abort"

\* the number of records a malformed file has before its offending bytes
records_before_offence ==
    CASE file = UnknownTag -> 3
      [] file = UnknownSubTag -> 3
      [] file = PrimArrayOfObject -> 2
      [] OTHER -> 0

\* C7: on a dump with an unknown tag, an unknown sub-record tag or a
\* primitive array of Object, the parser never terminates normally, the
\* records it emits are records that precede the offending bytes, and
\* slurp_file never returns Ok nor keeps a report
C7_MalformedIsFatal ==
    file \in MalformedFiles =>
        /\ ps_pc # "done"
        /\ IsPrefix(emitted, records_in_file_order)
        /\ Len(emitted) <= records_before_offence
        /\ outcome # "Ok"
        /\ drv_pc = "done" => (outcome \in {"StdThreadError", "abort"} /\ report = NoReport)

C7_Witness ==
    /\ file = PrimArrayOfObject /\ ps_pc = "panicked" /\ drv_pc = "done"
    /\ outcome = "StdThreadError" /\ Len(emitted) = 2

\* C8: on a dump that breaks the record grammar, what slurp_file returns is
\* InvalidHprofFile
C8_GrammarViolationIsInvalidHprofFile ==
    (file \in MalformedFiles /\ drv_pc = "done") => outcome = "InvalidHprofFile"

C8_Witness ==
    /\ file = UnknownTag /\ ps_pc = "panicked" /\ drv_pc = "done"
    /\ outcome = "StdThreadError"

\* C9: once the header step is over, a header with id size 4 has been
\* rejected with UnsupportedIdSize, one with id size 5 with InvalidIdSize,
\* and one with id size 8 and the 31-byte layout has been accepted; no worker
\* exists before the header step is over, and after a header error the
\* driver has returned that error without spawning any worker
C9_HeaderIdSize ==
    /\ drv_pc = "header" => NoWorkerSpawned
    /\ drv_pc # "header" =>
          /\ file \in {Id4File, ShortFormatId4File} => outcome = "UnsupportedIdSize"
          /\ file = Id5File => outcome = "InvalidIdSize"
          /\ file \in AcceptedFiles => outcome \notin HeaderErrors
    /\ outcome \in HeaderErrors => (drv_pc = "done" /\ NoWorkerSpawned)

C9_Witness ==
    /\ file = ShortFormatId4File /\ drv_pc = "done" /\ outcome = "UnsupportedIdSize"
    /\ NoWorkerSpawned

\* C10 (as the code has it): a file shorter than 31 bytes is rejected with
\* StdIoError, the failure of the header read
C10_ShortFileIsIoError ==
    (Len(file) < FILE_HEADER_LENGTH /\ drv_pc # "header") =>
        (drv_pc = "done" /\ outcome = "StdIoError" /\ NoWorkerSpawned)

C10_Witness ==
    /\ file = ShortFile /\ drv_pc = "done" /\ outcome = "StdIoError"

\* C10 (as stated): a file shorter than 31 bytes is rejected with
\* InvalidHeaderSize
C10_ShortFileIsInvalidHeaderSize ==
    (Len(file) < FILE_HEADER_LENGTH /\ drv_pc = "done") => outcome = "InvalidHeaderSize"

\* ------------------------------------------------------------------------
\* Pools and backpressure
\* ------------------------------------------------------------------------

\* the pooled byte buffers the reader holds: one between its receive from
\* the pool and its send on the data channel
reader_held == IF rd_pc = "read" THEN 1 ELSE 0

\* the byte buffers alive outside the parser's own step
pooled_buffers == Len(ch_pooled_data) + reader_held + Len(ch_data)

\* C11: at every moment at most 2 chunks are read (or being read) and not
\* yet received by the parser, although the data channel is unbounded; the
\* two seeded buffers are neither duplicated nor lost while the reader and
\* the parser run: each one is in the pool channel, with the reader or in
\* the data channel (the parser hands a buffer back within the step that
\* receives it), and no buffer is ever created after the seeding
C11_ReaderBoundedByPool ==
    /\ Len(ch_data) + reader_held <= 2
    /\ pooled_buffers <= 2
    /\ (rd_pc \in {"loop", "read"} /\ ps_pc \in {"recv", "recv_vec"}) => pooled_buffers = 2

\* the reader has more of the file to read and waits for the parser: both
\* buffers are in the data channel and the pool is empty
C11_Witness ==
    /\ rd_pc = "loop" /\ rd_processed_len < Len(file)
    /\ Len(ch_data) = 2 /\ ch_pooled_data = <<>>
    /\ ps_pc \in {"recv", "recv_vec"}

\* the record vectors in flight between the parser and the recorder
pooled_vectors == Len(ch_records) + Len(ch_pooled_vec)

\* C12: at every moment at most 1 batch is sent by the parser and not yet
\* folded and returned by the recorder: the one seeded vector is in the
\* pool channel or carries the batch in the records channel (the recorder
\* folds, clears and returns it in one step), never both, and it travels
\* as long as the parser and the recorder run
C12_ParserBoundedByPool ==
    /\ Len(ch_records) <= 1
    /\ pooled_vectors <= 1
    /\ (ps_pc \in {"recv", "recv_vec"} /\ rc_pc = "recv") => pooled_vectors = 1
    /\ \A k \in 1..Len(ch_pooled_vec) : ch_pooled_vec[k] = <<>>

\* the parser has decoded a second batch and waits for the vector that
\* carries the first one, which the recorder has not folded yet
C12_Witness ==
    /\ ps_pc = "recv_vec" /\ pooled_vec # <<>>
    /\ Len(ch_records) = 1 /\ ch_pooled_vec = <<>>
    /\ rc_pc = "recv"

\* ------------------------------------------------------------------------
\* Progress
\* ------------------------------------------------------------------------

\* a successful parse r of the loop buffer lb passes the assertion
\* processed_len <= file_len of the parser loop
assertion_passes(r, lb) ==
    r.res = "Ok" =>
        on_parsed(r, lb, needed, ps_processed_len, heap_dump_remaining_len, pooled_vec,
                  Len(file)).step = "parsed"

\* the parser is about to parse the loop buffer extended by the next chunk
parse_is_next ==
    /\ ps_pc = "recv" /\ ch_data # <<>>
    /\ needed <= Len(loop_buffer) + Len(Head(ch_data))

\* C13: the values sent on the progress channel are non-decreasing, all
\* above the header length and at most the file length; the parser never
\* counts more bytes than the reader has read, so the assertion
\* processed_len <= file_len passes at every parse that succeeds
C13_ProgressMonotonicAndBounded ==
    /\ \A k \in 1..Len(progress_sent) :
          /\ progress_sent[k] > FILE_HEADER_LENGTH
          /\ progress_sent[k] <= Len(file)
          /\ k > 1 => progress_sent[k - 1] <= progress_sent[k]
    /\ rd_pc # "unspawned" =>
          /\ ps_processed_len + Len(loop_buffer) <= rd_processed_len
          /\ rd_processed_len <= Len(file)
    /\ parse_is_next =>
          assertion_passes(parse_streaming(loop_buffer \o Head(ch_data),
                                           heap_dump_remaining_len, oc, pooled_vec),
                           loop_buffer \o Head(ch_data))

\* several progress values were sent and the last one is the file length
C13_Witness ==
    /\ Len(progress_sent) >= 3
    /\ Last(progress_sent) = Len(file)
    /\ ps_pc = "done"

\* ------------------------------------------------------------------------
\* Record framing
\* ------------------------------------------------------------------------

\* C14: the counter of the bytes left in the current segment never wraps
\* around (the declared lengths of the model's files are far below 2^31, so
\* a negative value is a u32 that went below 0), and it is 0 when the
\* parser has consumed the whole file: every segment ended exactly on a
\* sub-record boundary
C14_SegmentLengthExact ==
    /\ heap_dump_remaining_len >= 0
    /\ (ps_pc = "done" /\ ps_processed_len = Len(file)) => heap_dump_remaining_len = 0

\* built without overflow checks, the parser ran past the declared end of
\* a segment, the counter wrapped, and slurp_file returned a report
C14_Witness ==
    /\ file = ShortSegment /\ ~oc
    /\ heap_dump_remaining_len = 5 - 19
    /\ ps_pc = "done" /\ drv_pc = "done" /\ outcome = "Ok" /\ report # NoReport

\* ------------------------------------------------------------------------
\* The top-level decoders applied to one record each: the record, followed
\* or not by other records, is the slice handed to the closure of
\* parse_hprof_record in top-level mode
\* ------------------------------------------------------------------------

\* well-formed top-level records of every kind, each declaring the length
\* of its body
TopLevelRecords ==
    {utf8_bytes(1, [k \in 1..n |-> 97]) : n \in 0..MaxCount}
        \cup {load_class_bytes(1, 16, 1), unload_class_bytes(3), stack_frame_bytes(1),
              start_thread_bytes, heap_summary_bytes, end_thread_bytes,
              control_settings_bytes, heap_dump_end_bytes}
        \cup {stack_trace_bytes(n) : n \in 0..MaxCount}
        \cup {allocation_sites_bytes(n) : n \in 0..MaxCount}
        \cup {cpu_samples_bytes(t, c) : t \in 0..MaxCount, c \in 1..MaxCount}
        \cup {record_bytes(TAG_HEAP_DUMP, root_unknown_bytes(5)),
              record_bytes(TAG_HEAP_DUMP_SEGMENT, root_unknown_bytes(5))}

\* what follows the record in the slice
Tails == {<<>>, unload_class_bytes(4) \o unload_class_bytes(5)}

DecodeInit ==
    \E rec \in TopLevelRecords, tail \in Tails, b \in BOOLEAN :
        /\ file = rec \o tail /\ read_size = Len(rec) /\ oc = b
        /\ top = DefaultTop /\ is_file = TRUE /\ header_result = NoReport
        /\ drv_pc = "decode" /\ outcome = "none" /\ report = NoReport /\ pb_position = <<>>
        /\ rd_pc = "done" /\ rd_processed_len = Len(rec \o tail)
        /\ ps_pc = "decode" /\ loop_buffer = rec \o tail /\ needed = 0
        /\ ps_processed_len = 0 /\ pooled_vec = <<>>
        /\ heap_dump_remaining_len = 0
        /\ rc_pc = "unspawned" /\ recorder = ResultRecorder_new
        /\ ch_data = <<>> /\ ch_pooled_data = <<>> /\ ch_records = <<>> /\ ch_pooled_vec = <<>>
        /\ ch_progress = <<>> /\ ch_result = <<>>
        /\ emitted = <<>> /\ folded = <<>> /\ progress_sent = <<>>

\* what one call r of the closure leaves: the record and the bytes consumed,
\* or the number of bytes asked for, or a panic
decoded(r) ==
    CASE r.res = "Ok" ->
           /\ ps_pc' = "decoded"
           /\ ps_processed_len' = r.pos
           /\ pooled_vec' = <<r.rec>>
           /\ heap_dump_remaining_len' = r.remaining
           /\ needed' = needed
      [] r.res = "Incomplete" ->
           /\ ps_pc' = "incomplete"
           /\ needed' = r.n
           /\ UNCHANGED <<ps_processed_len, pooled_vec, heap_dump_remaining_len>>
      [] OTHER ->
           /\ ps_pc' = "panicked"
           /\ UNCHANGED <<ps_processed_len, pooled_vec, heap_dump_remaining_len, needed>>

\* one call of the closure of parse_hprof_record on the slice
Decode ==
    /\ drv_pc = "decode" /\ ps_pc = "decode"
    /\ decoded(parse_hprof_record(loop_buffer, 0, heap_dump_remaining_len, oc))
    /\ UNCHANGED <<loop_buffer, driver_vars, input_vars, header_result, reader_vars, recorder_vars,
                   ch_data, ch_pooled_data, ch_records, ch_pooled_vec, ch_progress, ch_result,
                   emitted, folded, progress_sent>>

DecodeNext == Decode

SpecDecode == DecodeInit /\ [][DecodeNext]_vars

\* the tag and the declared length of the record at the head of the slice
record_tag == loop_buffer[1]
declared_length == be_u32(loop_buffer, 5)

\* C15: the decoder of every top-level record other than HeapDumpEnd (and
\* other than the start of a segment, whose body is left to sub-record
\* mode) succeeds on a slice that holds the whole record and consumes the
\* declared length + 9 bytes
C15_DecoderConsumesDeclaredLength ==
    (/\ drv_pc = "decode" /\ ps_pc # "decode"
     /\ record_tag \notin {TAG_HEAP_DUMP_END, TAG_HEAP_DUMP, TAG_HEAP_DUMP_SEGMENT})
        => (ps_pc = "decoded" /\ ps_processed_len = declared_length + 9)

\* a CPU samples record of 1 trace of 2 samples declares 16 bytes; its
\* decoder reads 2 entries and consumes 8 bytes of the next record
C15_Witness ==
    /\ drv_pc = "decode" /\ ps_pc = "decoded"
    /\ loop_buffer = cpu_samples_bytes(1, 2) \o unload_class_bytes(4) \o unload_class_bytes(5)
    /\ pooled_vec[1].kind = "CpuSamples"
    /\ declared_length = 16
    /\ ps_processed_len = declared_length + 9 + 8

\* ------------------------------------------------------------------------
\* The report
\* ------------------------------------------------------------------------

\* the recorder once all the records of the file are folded
recorder_of_file == record_records(ResultRecorder_new, records_in_file_order)

\* the result rendered from the records of the file with the maps iterated
\* in one fixed order
reference_result ==
    render(recorder_of_file, ID_SIZE, oc,
           CHOOSE ord \in hash_orders(recorder_of_file) : TRUE, top).result

\* C16: the report slurp_file returns (tables and JSON arrays) is the one
\* rendered from the records of the dump with a fixed iteration order: it
\* depends neither on the order in which the hash maps yield their entries
\* nor on the interleaving of the threads
C16_OutputIsFunctionOfDump ==
    (drv_pc = "done" /\ outcome = "Ok") => report = reference_result

\* two rows have the same name and the same total size and differ in
\* their counts: the table of the top allocated classes has them in the
\* order the hash map yielded them, here the other order than the
\* reference's
C16_Witness ==
    /\ file = TwinClasses /\ drv_pc = "done" /\ outcome = "Ok"
    /\ report.memory_usage.allocated[1].class_name = report.memory_usage.allocated[2].class_name
    /\ report.memory_usage.allocated[1].total = report.memory_usage.allocated[2].total
    /\ report.memory_usage.allocated[1].count # report.memory_usage.allocated[2].count
    /\ report.memory_usage.allocated # reference_result.memory_usage.allocated
    /\ report.summary = reference_result.summary

\* n rounded up to a multiple of 8
round_up_8(n) == ((n + 7) \div 8) * 8

\* the rows of the table of the top allocated classes
report_rows == {report.memory_usage.allocated[k] : k \in 1..Len(report.memory_usage.allocated)}

\* the size of one instance of class c before padding: the instance sizes
\* of c and of its super classes, and the object header of 16 bytes
unpadded_instance_size(c) ==
    chain_size(recorder, c, 0, {}, oc).size + ID_SIZE + 4 + 4

\* the size of the largest array of primitive type t before padding
unpadded_array_size(t) ==
    ID_SIZE + 4 + 4 + primitive_byte_size(t) * recorder.primitive_array_counters[t].max_size_seen

\* C17: in the report slurp_file returns every size of the column of the
\* largest sizes is a multiple of 8, the size of an instance of a class is
\* its unpadded size rounded up to a multiple of 8 and so is the size of
\* the largest array of each primitive type
C17_SizesPaddedToEight ==
    (drv_pc = "done" /\ outcome = "Ok") =>
        /\ \A r \in report_rows : r.largest % 8 = 0
        /\ \A c \in DOMAIN recorder.classes_all_instance_total_size_by_id :
              \E r \in report_rows :
                  /\ r.class_name = get_class_name_string(recorder, c)
                  /\ r.largest = round_up_8(unpadded_instance_size(c))
        /\ \A t \in DOMAIN recorder.primitive_array_counters :
              \E r \in report_rows :
                  /\ r.class_name = primitive_array_label(t)
                  /\ r.largest = round_up_8(unpadded_array_size(t))

\* the largest byte[] has 1 element: 17 bytes before padding, reported as
\* 17 + 17 mod 8 = 18 bytes
C17_Witness ==
    /\ file = PrimDump /\ drv_pc = "done" /\ outcome = "Ok"
    /\ unpadded_array_size(FieldType_Byte) = 17
    /\ \E r \in report_rows :
          r.class_name = primitive_array_label(FieldType_Byte) /\ r.largest = 18

\* ------------------------------------------------------------------------
\* Classes and their super-class chains
\* ------------------------------------------------------------------------

\* the chain of class c ends at super class 0 through known classes only
chain_resolves(c) == chain_size(recorder, c, 0, {}, oc).res = "Ok"

\* C18: a report is rendered only when every class with a counted instance
\* resolves through its whole super-class chain, and a dump with an
\* instance of a class without class dump, or with an unknown ancestor,
\* makes slurp_file return an error and no report
C18_UnresolvedClassIsRejected ==
    /\ report # NoReport =>
          \A c \in DOMAIN recorder.classes_all_instance_total_size_by_id : chain_resolves(c)
    /\ (file \in UnresolvedFiles /\ drv_pc = "done") =>
          (outcome \notin {"Ok", "abort"} /\ report = NoReport)

\* an instance of class 16 was counted, the super class 99 of class 16 is
\* unknown, the recorder panicked while rendering and slurp_file did not
\* return: it panicked in turn
C18_Witness ==
    /\ file = UnknownAncestor /\ drv_pc = "done"
    /\ 16 \in DOMAIN recorder.classes_all_instance_total_size_by_id
    /\ recorder.classes_single_instance_size_by_id[16].super_class_object_id = 99
    /\ 99 \notin DOMAIN recorder.classes_single_instance_size_by_id
    /\ rc_pc = "panicked" /\ outcome = "abort"

\* the walk up the super classes of c never comes back to a class
chain_is_acyclic(c) == chain_size(recorder, c, 0, {}, FALSE).res # "Diverge"

\* C19: the chain of super classes of every class with a counted instance
\* reaches 0 without revisiting a class, and the recorder never stays in
\* the loop that adds up the sizes of a chain
C19_ChainWalkTerminates ==
    /\ \A c \in DOMAIN recorder.classes_all_instance_total_size_by_id : chain_is_acyclic(c)
    /\ rc_pc # "spinning"

\* class 16 is its own super class and has an instance: the recorder is in
\* the loop for ever, all other threads are done and slurp_file waits for
\* the result
C19_Witness ==
    /\ file = SelfSuper /\ rc_pc = "spinning"
    /\ recorder.classes_single_instance_size_by_id[16].super_class_object_id = 16
    /\ 16 \in DOMAIN recorder.classes_all_instance_total_size_by_id
    /\ rd_pc = "done" /\ ps_pc = "done" /\ drv_pc = "result" /\ ch_result = <<>>

\* ---------------------------------------------------------------------
\* The summary
\* ---------------------------------------------------------------------

\* how many of the folded records are of this type
folded_of_kind(kind) == Cardinality({k \in 1..Len(folded) : folded[k].kind = kind})

\* how many of the folded sub-records are of this kind
folded_of_gc_kind(kind) ==
    Cardinality({k \in 1..Len(folded) :
                    folded[k].kind = "GcSegment" /\ folded[k].gc.kind = kind})

\* the record types whose line of the summary is a counter, with the line
counted_lines ==
    {<<"UnloadClass", "classes_unloaded">>, <<"StackTrace", "stack_traces">>,
     <<"StackFrame", "stack_frames">>, <<"StartThread", "start_threads">>,
     <<"AllocationSites", "allocation_sites">>, <<"EndThread", "end_threads">>,
     <<"ControlSettings", "control_settings">>, <<"CpuSamples", "cpu_samples">>,
     <<"HeapSummary", "heap_summaries">>, <<"HeapDumpStart", "heap_dumps">>}

\* the record types whose line of the summary is the size of a map
keyed_lines == {<<"Utf8String", "utf8_strings">>, <<"LoadClass", "classes_loaded">>}

\* the sub-record kinds, with their line of the summary
gc_lines ==
    {<<"RootUnknown", "gc_root_unknown">>,
     <<"RootThreadObject", "gc_root_thread_objects">>,
     <<"RootJniGlobal", "gc_root_jni_global">>,
     <<"RootJniLocal", "gc_root_jni_local">>,
     <<"RootJavaFrame", "gc_root_java_frame">>,
     <<"RootNativeStack", "gc_root_native_stack">>,
     <<"RootStickyClass", "gc_root_sticky_class">>,
     <<"RootThreadBlock", "gc_root_thread_block">>,
     <<"RootMonitorUsed", "gc_root_monitor_used">>,
     <<"PrimitiveArrayDump", "gc_primitive_array_dump">>,
     <<"ObjectArrayDump", "gc_object_array_dump">>,
     <<"ClassDump", "gc_class_dump">>,
     <<"InstanceDump", "gc_instance_dump">>}

RECURSIVE sum_of_lines(_, _)
sum_of_lines(sm, lines) ==
    IF lines = {} THEN 0
    ELSE LET l == CHOOSE x \in lines : TRUE
         IN  sm[l[2]] + sum_of_lines(sm, lines \ {l})

\* the ids the folded Utf8String records carry
folded_string_ids ==
    {folded[k].id : k \in {j \in 1..Len(folded) : folded[j].kind = "Utf8String"}}

\* the class object ids the folded LoadClass records carry
folded_class_ids ==
    {folded[k].class_object_id :
        k \in {j \in 1..Len(folded) : folded[j].kind = "LoadClass"}}

\* the counters, the sub-record counters and their total agree with what
\* was folded
counters_agree(sm) ==
    /\ \A l \in counted_lines : sm[l[2]] = folded_of_kind(l[1])
    /\ \A l \in gc_lines : sm[l[2]] = folded_of_gc_kind(l[1])
    /\ sm.segments = sum_of_lines(sm, gc_lines)
    /\ sm.segments = folded_of_kind("GcSegment")

\* C20 as stated: whatever records the recorder has folded, the summary
\* has a line for every record type and sub-record kind among them, every
\* line is the number of folded records of its type, and the total of the
\* sub-records is the sum of the lines of the sub-record kinds.
C20_SummaryCountsEveryRecord ==
    rc_pc # "unspawned" =>
        /\ counters_agree(render_summary(recorder))
        /\ \A l \in keyed_lines : render_summary(recorder)[l[2]] = folded_of_kind(l[1])
        /\ \A k \in 1..Len(folded) :
              folded[k].kind \in
                  {l[1] : l \in counted_lines \cup keyed_lines} \cup {"GcSegment"}

\* C20, amended: the record types that have a counter and the sub-record
\* kinds are reported by the number of folded records, the strings and the
\* loaded classes by the number of distinct ids among the folded records,
\* the end of a heap dump has no line, and the total of the sub-records
\* is the sum of the lines of the sub-record kinds.
C20_SummaryCountsCountersAndIds ==
    rc_pc # "unspawned" =>
        /\ counters_agree(render_summary(recorder))
        /\ render_summary(recorder).utf8_strings = Cardinality(folded_string_ids)
        /\ render_summary(recorder).classes_loaded = Cardinality(folded_class_ids)

\* the recorder has folded a whole dump with every top-level record type,
\* a repeated string id, a repeated class id and two kinds of sub-records,
\* and the driver holds the report with its summary
C20_Witness ==
    /\ file = AllKinds
    /\ outcome = "Ok"
    /\ Len(folded) = 17
    /\ folded_of_kind("Utf8String") = 2
    /\ report.summary.utf8_strings = 1
    /\ report.summary.classes_loaded = 1
    /\ folded_of_kind("HeapDumpEnd") = 1
    /\ report.summary.segments = 2
    /\ report.summary.gc_primitive_array_dump = 1

\* ---------------------------------------------------------------------
\* The memory tables, the JSON arrays and the duplicated strings
\* ---------------------------------------------------------------------

\* the rows computed from the aggregates of the recorder, all of them
report_all_rows ==
    LET rs == memory_rows(recorder, ID_SIZE, oc, CHOOSE o \in hash_orders(recorder) : TRUE)
    IN  [k \in 1..Len(rs) |-> rs[k].row]

\* t lists min(n, Len(rows)) of the rows, by non-increasing key, and no row
\* left out has a greater key than a row listed
is_top(t, rows, key, n) ==
    /\ Len(t) = IF n < Len(rows) THEN n ELSE Len(rows)
    /\ \A k \in 1..(Len(t) - 1) : t[k][key] >= t[k + 1][key]
    /\ \E f \in [1..Len(t) -> 1..Len(rows)] :
          /\ \A a, b \in 1..Len(t) : a # b => f[a] # f[b]
          /\ \A k \in 1..Len(t) : rows[f[k]] = t[k]
          /\ \A j \in 1..Len(rows) :
                (\A k \in 1..Len(t) : f[k] # j) =>
                    \A k \in 1..Len(t) : rows[j][key] <= t[k][key]

RECURSIVE sum_of_totals(_, _)
sum_of_totals(rows, k) == IF k = 0 THEN 0 ELSE rows[k].total + sum_of_totals(rows, k - 1)

\* C21: in the report slurp_file returns, each memory table and each JSON
\* array lists min(top, number of rows) rows; the first table and the first
\* array hold the rows of the greatest total sizes by non-increasing total,
\* the second ones the rows of the greatest largest sizes by non-increasing
\* largest size; the heap total is the sum of the totals of all the rows
C21_TopRowsAndHeapTotal ==
    (drv_pc = "done" /\ outcome = "Ok") =>
        /\ is_top(report.memory_usage.allocated, report_all_rows, "total", top)
        /\ is_top(report.memory_usage.largest, report_all_rows, "largest", top)
        /\ is_top(report.json.top_allocated_classes, report_all_rows, "total", top)
        /\ is_top(report.json.top_largest_instances, report_all_rows, "largest", top)
        /\ report.total_size = sum_of_totals(report_all_rows, Len(report_all_rows))

\* three rows and top = 2: each table has two rows, the two tables start
\* with different rows, and the heap total exceeds the sum of the totals
\* listed
C21_Witness ==
    /\ file = MixedArrays /\ top = 2 /\ drv_pc = "done" /\ outcome = "Ok"
    /\ Len(report_all_rows) = 3
    /\ Len(report.memory_usage.allocated) = 2
    /\ Len(report.json.top_largest_instances) = 2
    /\ report.memory_usage.allocated[1] # report.memory_usage.largest[1]
    /\ report.total_size
           > report.memory_usage.allocated[1].total + report.memory_usage.allocated[2].total

\* the value stored for a string id: the one of the last record folded with it
stored_string(id) ==
    folded[CHOOSE k \in 1..Len(folded) :
              /\ folded[k].kind = "Utf8String" /\ folded[k].id = id
              /\ \A j \in (k + 1)..Len(folded) :
                    ~(folded[j].kind = "Utf8String" /\ folded[j].id = id)].str

\* stored values minus distinct values
duplicated_figure ==
    Cardinality(folded_string_ids) - Cardinality({stored_string(id) : id \in folded_string_ids})

\* C22: in the report slurp_file returns, the line of the duplicated
\* strings is present exactly when the number of stored strings (one per
\* id) exceeds the number of distinct values among them, and its figure is
\* that difference
C22_DuplicatedStringsFigure ==
    (drv_pc = "done" /\ outcome = "Ok") =>
        /\ report.duplicated_strings.some <=> duplicated_figure > 0
        /\ report.duplicated_strings.some =>
               report.duplicated_strings.value.duplicated = duplicated_figure

\* four string records, three ids, two distinct values: one duplicate
C22_Witness ==
    /\ file = DupStrings /\ drv_pc = "done" /\ outcome = "Ok"
    /\ folded_of_kind("Utf8String") = 4
    /\ Cardinality(folded_string_ids) = 3
    /\ report.duplicated_strings = Some([duplicated |-> 1, out_of |-> 3])

\* ---------------------------------------------------------------------
\* The arguments
\* ---------------------------------------------------------------------

\* C23: once get_args has returned, top = 0 has given the error of the
\* invalid top, whether the input path names a file or not
C23_TopZeroRejectedFirst ==
    (top = 0 /\ drv_pc # "args") => (drv_pc = "done" /\ outcome = "InvalidTopPositiveInt")

\* top = 0 with a path that names no file: the path was looked up first and
\* the error is the one of the missing file
C23_Witness ==
    /\ top = 0 /\ ~is_file
    /\ drv_pc = "done" /\ outcome = "InputFileNotFound"
    /\ rd_pc = "unspawned"

\* ---------------------------------------------------------------------
\* The file header: parse_file_header applied to headers and to their
\* prefixes
\* ---------------------------------------------------------------------

HeaderFormats == {<<>>, <<74>>, FormatName}
HeaderIdSizes == {4, 8, 2052}
HeaderTimestamps == {0, 258, 2147483647}
HeaderTails == {<<>>, <<7>>}

HeaderInit ==
    \E fmt \in HeaderFormats, sz \in HeaderIdSizes, ts \in HeaderTimestamps,
       tail \in HeaderTails :
        \E k \in 0..Len(fmt \o <<0>> \o enc(sz, 4) \o enc(ts, 8) \o tail) :
            /\ file = SubSeq(fmt \o <<0>> \o enc(sz, 4) \o enc(ts, 8) \o tail, 1, k)
            /\ read_size = 0 /\ oc \in BOOLEAN
            /\ top = DefaultTop /\ is_file = TRUE /\ header_result = NoReport
            /\ drv_pc = "parse_header" /\ outcome = "none" /\ report = NoReport
            /\ pb_position = <<>>
            /\ rd_pc = "unspawned" /\ rd_processed_len = 0
            /\ ps_pc = "unspawned" /\ loop_buffer = <<>> /\ needed = 0
            /\ ps_processed_len = 0 /\ pooled_vec = <<>>
            /\ heap_dump_remaining_len = 0
            /\ rc_pc = "unspawned" /\ recorder = ResultRecorder_new
            /\ ch_data = <<>> /\ ch_pooled_data = <<>> /\ ch_records = <<>>
            /\ ch_pooled_vec = <<>>
            /\ ch_progress = <<>> /\ ch_result = <<>>
            /\ emitted = <<>> /\ folded = <<>> /\ progress_sent = <<>>

\* one call of parse_file_header on the bytes
ParseHeader ==
    /\ drv_pc = "parse_header"
    /\ header_result' = parse_file_header(file)
    /\ drv_pc' = "parsed_header"
    /\ UNCHANGED <<outcome, report, pb_position, input_vars, reader_vars, parser_vars,
                   recorder_vars, ch_data, ch_pooled_data, ch_records, ch_pooled_vec,
                   ch_progress, ch_result, emitted, folded, progress_sent>>

HeaderNext == ParseHeader

SpecHeader == HeaderInit /\ [][HeaderNext]_vars

\* the place of the first NUL of the bytes
first_nul == CHOOSE k \in 1..Len(file) : file[k] = 0 /\ \A j \in 1..(k - 1) : file[j] # 0

\* the bytes hold a NUL and twelve bytes after it
holds_complete_header ==
    \E k \in 1..Len(file) : file[k] = 0 /\ Len(file) >= k + 12

\* the four bytes after place p, the most significant first
word_after(p) == file[p + 1] * 16777216 + file[p + 2] * 65536 + file[p + 3] * 256 + file[p + 4]

\* C24: on bytes that hold a complete header parse_file_header returns the
\* bytes before the first NUL as the format, the next four bytes as the
\* big-endian id size and the next eight as the big-endian timestamp, and
\* consumes exactly these bytes, so nothing is left of a header of 31
\* bytes with the format name of 18 characters; on a shorter prefix it
\* returns Incomplete, neither a header nor an error
C24_HeaderDecodedOrIncomplete ==
    drv_pc = "parsed_header" =>
        IF holds_complete_header
        THEN /\ header_result.res = "Ok"
             /\ header_result.pos = first_nul + 12
             /\ header_result.header.format = SubSeq(file, 1, first_nul - 1)
             /\ header_result.header.size_pointers = word_after(first_nul)
             /\ word_after(first_nul + 4) = 0 =>
                    header_result.header.timestamp = word_after(first_nul + 8)
             /\ (Len(file) = FILE_HEADER_LENGTH /\ first_nul = Len(FormatName) + 1) =>
                    header_result.pos = Len(file)
        ELSE header_result.res = "Incomplete"

\* the header of 31 bytes with the format name, id size 8 and timestamp
\* 258 was decoded and nothing is left
C24_Witness ==
    /\ drv_pc = "parsed_header"
    /\ Len(file) = FILE_HEADER_LENGTH
    /\ header_result.res = "Ok" /\ header_result.pos = FILE_HEADER_LENGTH
    /\ header_result.header = [format |-> FormatName, size_pointers |-> 8, timestamp |-> 258]

\* ---------------------------------------------------------------------
\* The two modes of parse_hprof_record: one call of the closure with the
\* counter at 0 or above it
\* ---------------------------------------------------------------------

\* a HEAP_DUMP or HEAP_DUMP_SEGMENT header that declares len bytes
segment_header_bytes(tag, len) == <<tag>> \o enc(0, 4) \o enc(len, 4)

\* the segment lengths of the headers given to the parser
SegmentLengths == {0, 9, 28}

\* records decoded with the counter at 0
ModeTopLevelRecords ==
    {unload_class_bytes(3), heap_dump_end_bytes}
        \cup {segment_header_bytes(t, l) :
                 t \in {TAG_HEAP_DUMP, TAG_HEAP_DUMP_SEGMENT}, l \in SegmentLengths}

\* sub-records decoded with the counter above 0
SubRecords ==
    {root_unknown_bytes(5),
     primitive_array_dump_bytes(7, FieldType_Byte, 1, <<42>>),
     class_dump_bytes(16, 0, 4),
     instance_dump_bytes(9, 16, <<0, 0, 0, 1>>)}

\* what follows in the slice
ModeTails == {<<>>, root_unknown_bytes(6), unload_class_bytes(4)}

\* the counter when a sub-record is decoded: the sub-record ends the
\* segment, or 9 more bytes follow it, or the segment declared 5 bytes only
counters_for(sub) == {Len(sub), Len(sub) + 9, 5}

ModesInitWith(i, remaining) ==
    \E k \in 0..Len(i) :
        /\ file = SubSeq(i, 1, k) /\ read_size = k /\ oc \in BOOLEAN
        /\ top = DefaultTop /\ is_file = TRUE /\ header_result = NoReport
        /\ drv_pc = "decode" /\ outcome = "none" /\ report = NoReport /\ pb_position = <<>>
        /\ rd_pc = "done" /\ rd_processed_len = k
        /\ ps_pc = "decode" /\ loop_buffer = SubSeq(i, 1, k) /\ needed = 0
        /\ ps_processed_len = 0 /\ pooled_vec = <<>>
        /\ heap_dump_remaining_len = remaining
        /\ rc_pc = "unspawned" /\ recorder = ResultRecorder_new
        /\ ch_data = <<>> /\ ch_pooled_data = <<>> /\ ch_records = <<>> /\ ch_pooled_vec = <<>>
        /\ ch_progress = <<>> /\ ch_result = <<>>
        /\ emitted = <<>> /\ folded = <<>> /\ progress_sent = <<>>

ModesInit ==
    \/ \E rec \in ModeTopLevelRecords, tail \in ModeTails : ModesInitWith(rec \o tail, 0)
    \/ \E sub \in SubRecords, tail \in ModeTails :
           \E remaining \in counters_for(sub) : ModesInitWith(sub \o tail, remaining)

ModesNext == Decode

SpecModes == ModesInit /\ [][ModesNext]_vars

\* the length a segment header at the front of the slice declares
declared_segment_length == word_after(5)

\* C25: a call that returns a record has decoded a sub-record exactly when
\* the counter was not 0; with the counter at 0 a HEAP_DUMP or
\* HEAP_DUMP_SEGMENT header of length L gives HeapDumpStart{L} and sets the
\* counter to L (so length 0 leaves the top-level mode on) and any other
\* record leaves the counter at 0; a call in sub-record mode consumes one
\* sub-record and lowers the counter by the bytes consumed
C25_ModeFollowsCounter ==
    [][(drv_pc = "decode" /\ ps_pc = "decode" /\ ps_pc' = "decoded") =>
          IF heap_dump_remaining_len # 0
          THEN /\ pooled_vec'[1].kind = "GcSegment"
               /\ \E sub \in SubRecords :
                      IsPrefix(sub, loop_buffer) /\ ps_processed_len' = Len(sub)
               /\ heap_dump_remaining_len' >= 0
               /\ heap_dump_remaining_len' = heap_dump_remaining_len - ps_processed_len'
          ELSE /\ pooled_vec'[1].kind # "GcSegment"
               /\ IF loop_buffer[1] \in {TAG_HEAP_DUMP, TAG_HEAP_DUMP_SEGMENT}
                  THEN /\ pooled_vec'[1] = [kind |-> "HeapDumpStart",
                                            length |-> declared_segment_length]
                       /\ heap_dump_remaining_len' = declared_segment_length
                       /\ ps_processed_len' = 9
                  ELSE heap_dump_remaining_len' = 0]_vars

\* a call in sub-record mode with the counter at 5 decoded an array of 19
\* bytes in a build without overflow checks: the counter wrapped below 0
\* instead of being lowered by 19
C25_Witness ==
    /\ drv_pc = "decode" /\ ps_pc = "decoded" /\ ~oc
    /\ pooled_vec # <<>> /\ pooled_vec[1].kind = "GcSegment"
    /\ pooled_vec[1].gc.kind = "PrimitiveArrayDump"
    /\ ps_processed_len = 19
    /\ heap_dump_remaining_len = 5 - 19

\* ---------------------------------------------------------------------
\* Decoding that runs short of bytes
\* ---------------------------------------------------------------------

\* the loop buffer once the chunk at the head of the data channel is appended
appended_buffer == loop_buffer \o Head(ch_data)

\* the parser takes a chunk and runs the grammar on the loop buffer
decode_attempt ==
    /\ ps_pc = "recv" /\ ch_data # <<>>
    /\ needed <= Len(appended_buffer)
    /\ ch_data' = Tail(ch_data)

\* the first record of the attempt runs short of bytes
first_record_needs_more ==
    parse_hprof_record(appended_buffer, 0, heap_dump_remaining_len, oc).res = "Incomplete"

\* C26: when the decoding of the record at the front of the loop buffer
\* ends in NeedMore, the counter of the segment, the processed length and
\* the record vector are as before the attempt, the loop buffer keeps all
\* its bytes, and neither a progress value nor a batch is sent; when
\* records were decoded before the one that runs short, the bytes drained
\* from the loop buffer are the bytes counted as processed and the bytes
\* of the unfinished record all stay in the loop buffer
C26_NeedMoreCommitsNothing ==
    [][decode_attempt =>
          IF first_record_needs_more
          THEN /\ heap_dump_remaining_len' = heap_dump_remaining_len
               /\ ps_processed_len' = ps_processed_len
               /\ pooled_vec' = pooled_vec
               /\ ps_pc' = "recv" => loop_buffer' = appended_buffer
               /\ ch_progress' = ch_progress /\ progress_sent' = progress_sent
               /\ ch_records' = ch_records /\ emitted' = emitted
          ELSE ps_pc' = "recv_vec" =>
                  /\ loop_buffer' = SubSeq(appended_buffer,
                                           Len(appended_buffer) - Len(loop_buffer') + 1,
                                           Len(appended_buffer))
                  /\ ps_processed_len' - ps_processed_len
                         = Len(appended_buffer) - Len(loop_buffer')
                  /\ parse_hprof_record(loop_buffer', 0, heap_dump_remaining_len', oc).res
                         # "Ok"]_vars

\* the array of PrimDump ran short of bytes: the counter of the segment
\* still holds the 19 bytes of the sub-record, the bytes received stay in
\* the loop buffer and the only progress value sent is the one of the
\* segment header
C26_Witness ==
    /\ file = PrimDump /\ ps_pc = "recv"
    /\ heap_dump_remaining_len = 19
    /\ loop_buffer # <<>> /\ needed > Len(loop_buffer)
    /\ pooled_vec = <<>>
    /\ ps_processed_len = FILE_HEADER_LENGTH + 9
    /\ progress_sent = <<FILE_HEADER_LENGTH + 9>>

\* what the grammar returns on the loop buffer with the chunk appended
grammar_result == parse_streaming(appended_buffer, heap_dump_remaining_len, oc, pooled_vec)

\* the parser takes the chunk at the head of the data channel
parser_takes_chunk == ps_pc = "recv" /\ ch_data # <<>> /\ ch_data' = Tail(ch_data)

\* C27: when the grammar returns NeedMore(n) on a loop buffer of c bytes the
\* parser records needed = c + n; while the loop buffer holds fewer bytes
\* than needed a chunk is only appended to it, the grammar is not run and
\* nothing else changes; when the parser has sent a batch and is back at
\* the data channel needed is 0
C27_NeededBytesRecorded ==
    [][/\ (parser_takes_chunk /\ needed > Len(appended_buffer)) =>
              /\ ps_pc' = "recv" /\ needed' = needed
              /\ loop_buffer' = appended_buffer
              /\ UNCHANGED <<ps_processed_len, pooled_vec, heap_dump_remaining_len,
                             ch_progress, progress_sent, ch_records, emitted>>
       /\ (/\ parser_takes_chunk /\ needed <= Len(appended_buffer)
           /\ grammar_result.res = "Incomplete" /\ ps_pc' = "recv") =>
              needed' = Len(appended_buffer) + grammar_result.n
       /\ (ps_pc = "recv_vec" /\ ps_pc' = "recv") => needed' = 0]_vars

\* the first five bytes of the string record of ClassDumpFile are in the
\* loop buffer: the length field lacks 4 bytes and needed is 5 + 4; the
\* next chunk of less than 4 bytes is appended without a parse
C27_Witness ==
    /\ file = ClassDumpFile /\ ps_pc = "recv"
    /\ Len(loop_buffer) \in 5..8
    /\ loop_buffer = SubSeq(body(file), 1, Len(loop_buffer))
    /\ needed = 9
    /\ ps_processed_len = FILE_HEADER_LENGTH /\ progress_sent = <<>>

\* ---------------------------------------------------------------------
\* What travels on the channels
\* ---------------------------------------------------------------------

RECURSIVE total_len(_)
total_len(chunks) == IF chunks = <<>> THEN 0 ELSE Len(Head(chunks)) + total_len(Tail(chunks))

\* the file offset at which the k-th chunk queued on the data channel starts
chunk_offset(k) == rd_processed_len - total_len(SubSeq(ch_data, k, Len(ch_data)))

\* the size of a full buffer read at offset off
full_size(off) == IF Len(file) - off > read_size THEN read_size ELSE Len(file) - off

\* C28: every chunk on the data channel is non-empty and is the buffer
\* filled with the next bytes of the file (read_size of them, or all that
\* is left); every buffer on the way back to the reader is empty; every
\* batch on the records channel holds at least one record; every vector on
\* the way back to the parser is empty
C28_ChannelContents ==
    /\ \A k \in 1..Len(ch_data) :
          /\ ch_data[k] # <<>>
          /\ Len(ch_data[k]) = full_size(chunk_offset(k))
          /\ ch_data[k] = SubSeq(file, chunk_offset(k) + 1,
                                 chunk_offset(k) + full_size(chunk_offset(k)))
    /\ \A k \in 1..Len(ch_pooled_data) : ch_pooled_data[k] = <<>>
    /\ \A k \in 1..Len(ch_records) : ch_records[k] # <<>>
    /\ \A k \in 1..Len(ch_pooled_vec) : ch_pooled_vec[k] = <<>>

\* the four kinds of messages have all travelled: a chunk and a batch of
\* several records are queued, a buffer is on its way back to the reader,
\* and the recorder has already folded a batch and handed its vector back
C28_Witness ==
    /\ file = ClassDumpFile
    /\ ch_data # <<>> /\ ch_pooled_data # <<>>
    /\ ch_records # <<>> /\ Len(ch_records[1]) >= 2
    /\ folded # <<>>
    /\ rd_pc = "loop" /\ ps_pc = "recv" /\ rc_pc = "recv"

\* ---------------------------------------------------------------------
\* The end of the run
\* ---------------------------------------------------------------------

\* the driver is past receive_result.recv() with a result
driver_took_result ==
    \/ drv_pc \in {"join_prefetch", "join_parser", "join_recorder"}
    \/ drv_pc = "done" /\ outcome \in {"Ok", "StdThreadError"}

\* the results the recorder has sent: those still queued and the one the
\* driver took
results_sent == Len(ch_result) + (IF driver_took_result THEN 1 ELSE 0)

\* the recorder has left its loop
recorder_left_loop == rc_pc \in {"done", "panicked", "spinning"}

\* a result is sent only when the records channel is closed and empty and
\* all the records sent were folded, the aggregates are those of the
\* records folded before the rendering, and the driver has the result only
\* after the progress channel was closed and drained
result_comes_last ==
    /\ results_sent <= 1
    /\ results_sent = 1 => rc_pc = "done"
    /\ recorder_left_loop =>
          /\ dead(ps_pc) /\ ch_records = <<>>
          /\ folded = emitted
          /\ recorder = record_records(ResultRecorder_new, emitted)
    /\ report # NoReport => driver_took_result
    /\ driver_took_result =>
          /\ dead(ps_pc) /\ ch_progress = <<>>
          /\ pb_position = progress_sent

\* C29: the recorder leaves its loop only when the records channel is
\* closed and every batch sent was folded, it then renders and sends
\* exactly one result, the aggregates do not change after that, and the
\* driver has the result only after the progress channel was closed
C29_ResultSentOnceAtTheEnd ==
    /\ result_comes_last
    /\ recorder_left_loop => results_sent = 1

\* a dump with its header only: the records channel is closed, nothing is
\* left to fold, the recorder has rendered and panicked on the empty
\* tables, and no result was sent
C29_Witness ==
    /\ file = HeaderOnly
    /\ rc_pc = "panicked" /\ ps_pc = "done"
    /\ ch_records = <<>> /\ folded = emitted
    /\ results_sent = 0

\* ---------------------------------------------------------------------
\* What the reader delivers
\* ---------------------------------------------------------------------

\* a step that puts a chunk on the data channel
reader_sends == Len(ch_data') = Len(ch_data) + 1

\* the chunk such a step has put there
sent_chunk == ch_data'[Len(ch_data')]

\* each chunk sent is non-empty, holds the bytes of the file that follow
\* the ones already delivered, moves the position by its own length, and
\* has read_size bytes unless it ends the file; no other step moves the
\* position
chunks_in_file_order ==
    IF reader_sends
    THEN /\ sent_chunk # <<>>
         /\ sent_chunk = SubSeq(file, rd_processed_len + 1,
                                rd_processed_len + Len(sent_chunk))
         /\ rd_processed_len' = rd_processed_len + Len(sent_chunk)
         /\ \/ Len(sent_chunk) = read_size
            \/ Len(sent_chunk) < read_size /\ rd_processed_len' = Len(file)
    ELSE rd_processed_len' = rd_processed_len

\* the bytes delivered so far
delivered == rd_processed_len - FILE_HEADER_LENGTH

\* the reader never goes past the end of the file, returns only when all
\* bytes after the header are delivered, and neither takes a buffer nor
\* sends a chunk for a file that ends with its header
delivered_total ==
    /\ rd_pc # "unspawned" => delivered >= 0 /\ delivered <= Len(file) - FILE_HEADER_LENGTH
    /\ rd_pc = "done" => delivered = Len(file) - FILE_HEADER_LENGTH
    /\ Len(file) = FILE_HEADER_LENGTH => ch_data = <<>> /\ rd_pc \in {"unspawned", "loop", "done"}

\* C30: the reader delivers the bytes after the header as consecutive
\* chunks in file order, each of read_size bytes except the last, which
\* has what is left; no chunk is empty, a header-only file gives no
\* chunk, and a reader that has returned has delivered file length minus
\* header length bytes
C30_ChunksCoverTheFile == []delivered_total /\ [][chunks_in_file_order]_vars

\* the reader has returned after cutting a file into several full chunks
\* and a shorter last one, all still queued
C30_Witness ==
    /\ rd_pc = "done"
    /\ Len(ch_data) >= 2
    /\ Len(ch_data[1]) = read_size
    /\ Len(ch_data[Len(ch_data)]) < read_size
    /\ delivered > 2 * read_size

\* ---------------------------------------------------------------------
\* The reader and the failures of the threads after it
\* ---------------------------------------------------------------------

\* C31: the reader thread never fails, whatever happens to the parser and
\* to the recorder, and it returns only when it has delivered the whole
\* file
C31_ReaderIgnoresDownstream ==
    /\ rd_pc # "panicked"
    /\ rd_pc = "done" => rd_processed_len = Len(file)

\* the parser has panicked on a record it cannot decode while the reader
\* still had bytes to deliver, and the reader has panicked in its turn
C31_Witness ==
    /\ ps_pc = "panicked" /\ rd_pc = "panicked"
    /\ rd_processed_len < Len(file)
    /\ drv_pc = "done" /\ outcome = "StdThreadError"

\* ------------------------------------------------------------------------
\* The sub-records whose payload is skipped, decoded one at a time in
\* sub-record mode, for small and for very large 32-bit counts
\* ------------------------------------------------------------------------

\* the bytes of the count field: 0..MaxCount, 2^29, 2^29 + 1, 2^30, 2^31,
\* 2^31 + 1 and 2^32 - 1
CountFields ==
    {enc(n, 4) : n \in 0..MaxCount}
        \cup {<<32, 0, 0, 0>>, <<32, 0, 0, 1>>, <<64, 0, 0, 0>>,
              <<128, 0, 0, 0>>, <<128, 0, 0, 1>>, <<255, 255, 255, 255>>}

\* the fixed part of each sub-record, up to the payload
SkippedHeaders ==
    {<<TAG_GC_INSTANCE_DUMP>> \o enc(9, 8) \o enc(0, 4) \o enc(16, 8) \o c : c \in CountFields}
        \cup {<<TAG_GC_OBJ_ARRAY_DUMP>> \o enc(9, 8) \o enc(0, 4) \o c \o enc(16, 8) :
                 c \in CountFields}
        \cup {<<TAG_GC_PRIM_ARRAY_DUMP>> \o enc(9, 8) \o enc(0, 4) \o c \o <<t>> :
                 c \in CountFields, t \in FieldTypeValues}

\* the number of bytes that follow the fixed part in the slice
PayloadLengths == 0..(8 * MaxCount + 1)

SkipInit ==
    \E h \in SkippedHeaders, m \in PayloadLengths, b \in BOOLEAN :
        /\ file = h \o [k \in 1..m |-> 0] /\ read_size = Len(h) + m /\ oc = b
        /\ top = DefaultTop /\ is_file = TRUE /\ header_result = NoReport
        /\ drv_pc = "decode" /\ outcome = "none" /\ report = NoReport /\ pb_position = <<>>
        /\ rd_pc = "done" /\ rd_processed_len = Len(h) + m
        /\ ps_pc = "decode" /\ loop_buffer = h \o [k \in 1..m |-> 0] /\ needed = 0
        /\ ps_processed_len = 0 /\ pooled_vec = <<>>
        /\ heap_dump_remaining_len = Len(h) + m
        /\ rc_pc = "unspawned" /\ recorder = ResultRecorder_new
        /\ ch_data = <<>> /\ ch_pooled_data = <<>> /\ ch_records = <<>> /\ ch_pooled_vec = <<>>
        /\ ch_progress = <<>> /\ ch_result = <<>>
        /\ emitted = <<>> /\ folded = <<>> /\ progress_sent = <<>>

SkipNext == Decode

SpecSkip == SkipInit /\ [][SkipNext]_vars

\* the sub-record at the front of the slice: the length of its fixed
\* part, its count field, and the size of one element of its payload
fixed_length == IF loop_buffer[1] = TAG_GC_PRIM_ARRAY_DUMP THEN 18 ELSE 25
count_field ==
    IF loop_buffer[1] = TAG_GC_INSTANCE_DUMP THEN be_u32(loop_buffer, 21)
    ELSE be_u32(loop_buffer, 13)
element_width ==
    CASE loop_buffer[1] = TAG_GC_INSTANCE_DUMP -> 1
      [] loop_buffer[1] = TAG_GC_OBJ_ARRAY_DUMP -> ID_SIZE
      [] OTHER -> skip_factor(loop_buffer[18])

\* the slice holds count_field elements of element_width bytes after the
\* fixed part (a count of 2^31 or more is kept as a negative integer)
payload_is_there ==
    /\ count_field >= 0
    /\ count_field <= (Len(loop_buffer) - fixed_length) \div element_width

\* C32: the decoder of InstanceDump, ObjectArrayDump and
\* PrimitiveArrayDump advances past the fixed part and exactly
\* count x element size payload bytes when the slice holds them, and asks
\* for more bytes when it does not, for every value of the 32-bit count
C32_SkipsExactPayload ==
    (/\ drv_pc = "decode" /\ ps_pc # "decode"
     /\ ~(loop_buffer[1] = TAG_GC_PRIM_ARRAY_DUMP /\ loop_buffer[18] = FieldType_Object))
        => IF payload_is_there
           THEN /\ ps_pc = "decoded"
                /\ ps_processed_len = fixed_length + count_field * element_width
           ELSE ps_pc = "incomplete"

\* in a build without overflow checks an array of 2^29 long values, whose
\* payload is 2^32 bytes, was decoded from a slice that holds its fixed
\* part only: 2^29 * 8 wrapped to 0 and no payload byte was skipped
C32_Witness ==
    /\ drv_pc = "decode" /\ ps_pc = "decoded" /\ ~oc
    /\ loop_buffer[1] = TAG_GC_PRIM_ARRAY_DUMP /\ loop_buffer[18] = FieldType_Long
    /\ SubSeq(loop_buffer, 14, 17) = <<32, 0, 0, 0>>
    /\ Len(loop_buffer) = 18
    /\ ps_processed_len = 18

\* ------------------------------------------------------------------------
\* The padding of render_memory_usage, applied to one class and one
\* primitive array of every small size
\* ------------------------------------------------------------------------

\* the instance sizes of the class and the element counts of the array
PadSizes == 0..(4 * MaxCount - 1)

\* the primitive element types
PrimitiveTypes == FieldTypeValues \ {FieldType_Object}

\* a dump with a class "A" of instance size s with one instance, and one
\* array of n elements of type t
pad_dump(s, t, n) ==
    HeaderOnly
        \o utf8_bytes(1, <<65>>)
        \o load_class_bytes(1, 16, 1)
        \o record_bytes(TAG_HEAP_DUMP_SEGMENT,
                        class_dump_bytes(16, 0, s) \o instance_dump_bytes(9, 16, <<>>)
                            \o primitive_array_dump_bytes(7, t, n,
                                   [k \in 1..(n * primitive_byte_size(t)) |-> 0]))
        \o heap_dump_end_bytes

\* the recorder has folded the records of the dump and is about to render
PadInit ==
    \E s \in PadSizes, t \in PrimitiveTypes, n \in PadSizes, b \in BOOLEAN :
        /\ file = pad_dump(s, t, n) /\ read_size = MaxReadSize /\ oc = b
        /\ top = DefaultTop /\ is_file = TRUE /\ header_result = NoReport
        /\ drv_pc = "render_rows" /\ outcome = "none" /\ report = NoReport /\ pb_position = <<>>
        /\ rd_pc = "done" /\ rd_processed_len = Len(pad_dump(s, t, n))
        /\ ps_pc = "done" /\ loop_buffer = <<>> /\ needed = 0
        /\ ps_processed_len = Len(pad_dump(s, t, n)) /\ pooled_vec = <<>>
        /\ heap_dump_remaining_len = 0
        /\ rc_pc = "render_rows"
        /\ recorder = record_records(ResultRecorder_new,
                                     records_from(body(pad_dump(s, t, n)), 0, 0, b))
        /\ ch_data = <<>> /\ ch_pooled_data = <<>> /\ ch_records = <<>> /\ ch_pooled_vec = <<>>
        /\ ch_progress = <<>> /\ ch_result = <<>>
        /\ emitted = records_from(body(pad_dump(s, t, n)), 0, 0, b)
        /\ folded = records_from(body(pad_dump(s, t, n)), 0, 0, b)
        /\ progress_sent = <<>>

\* the call of render_memory_usage on the recorder: the rows computed and
\* sorted, kept in report
RenderRows ==
    /\ rc_pc = "render_rows"
    /\ \E ord \in hash_orders(recorder) :
           report' = render_memory_usage(recorder, ID_SIZE, oc, ord, top)
    /\ rc_pc' = "rendered_rows"
    /\ UNCHANGED <<outcome, pb_position, drv_pc, input_vars, header_result, reader_vars,
                   parser_vars, recorder,
                   ch_data, ch_pooled_data, ch_records, ch_pooled_vec, ch_progress, ch_result,
                   emitted, folded, progress_sent>>

PadNext == RenderRows

SpecPad == PadInit /\ [][PadNext]_vars

\* the column of the largest sizes of the rendered rows, with for each row
\* its size before padding
rendered_sizes ==
    {[padded |-> report.rows.largest[k].largest,
      size |-> IF report.rows.largest[k].class_name = <<65>>
               THEN unpadded_instance_size(16)
               ELSE unpadded_array_size(
                        CHOOSE t \in DOMAIN recorder.primitive_array_counters : TRUE)] :
        k \in 1..Len(report.rows.largest)}

MaxFold == 3

object_array_dump_bytes(object_id, number_of_elements, array_class_id) ==
    <<TAG_GC_OBJ_ARRAY_DUMP>> \o enc(object_id, 8) \o enc(0, 4)
        \o enc(number_of_elements, 4) \o enc(array_class_id, 8)
        \o [k \in 1..(number_of_elements * ID_SIZE) |-> 0]

\* the record the grammar decodes from the bytes of a top-level record, and
\* from the bytes of a sub-record
top_level_of(bytes) == parse_hprof_record(bytes, 0, 0, FALSE).rec
sub_record_of(bytes) == parse_hprof_record(bytes, 0, Len(bytes), FALSE).rec

\* the first batch: classes 16 "A" and 17 "B"
NamesBatch ==
    <<top_level_of(utf8_bytes(1, <<65>>)), top_level_of(utf8_bytes(2, <<66>>)),
      top_level_of(load_class_bytes(1, 16, 1)), top_level_of(load_class_bytes(2, 17, 2))>>

\* records about classes: string 1 and class 16 given again with another
\* name, class 16 dumped with super class 17 and on its own, class 17,
\* instances of class 16 with 0 and 4 bytes of data and of class 17
ClassRecords ==
    {top_level_of(utf8_bytes(1, <<67>>)),
     top_level_of(load_class_bytes(3, 16, 2)),
     sub_record_of(class_dump_bytes(16, 17, 4)),
     sub_record_of(class_dump_bytes(16, 0, 1)),
     sub_record_of(class_dump_bytes(17, 0, 3)),
     sub_record_of(instance_dump_bytes(9, 16, <<>>)),
     sub_record_of(instance_dump_bytes(10, 16, <<0, 0, 0, 1>>)),
     sub_record_of(instance_dump_bytes(11, 17, <<>>))}

\* records about arrays: byte[1], byte[3], long[2], and arrays of 1 and 2
\* references of class 16 and of 1 reference of class 17
ArrayRecords ==
    {sub_record_of(primitive_array_dump_bytes(7, FieldType_Byte, 1, <<42>>)),
     sub_record_of(primitive_array_dump_bytes(7, FieldType_Byte, 3, <<42, 43, 44>>)),
     sub_record_of(primitive_array_dump_bytes(7, FieldType_Long, 2, [k \in 1..16 |-> 0])),
     sub_record_of(object_array_dump_bytes(8, 1, 16)),
     sub_record_of(object_array_dump_bytes(8, 2, 16)),
     sub_record_of(object_array_dump_bytes(8, 1, 17))}

FoldInitWith(batches, b) ==
    /\ file = HeaderOnly /\ read_size = MaxReadSize /\ oc = b
    /\ top = DefaultTop /\ is_file = TRUE /\ header_result = NoReport
    /\ drv_pc = "fold" /\ outcome = "none" /\ report = NoReport /\ pb_position = <<>>
    /\ rd_pc = "done" /\ rd_processed_len = Len(HeaderOnly)
    /\ ps_pc = "done" /\ loop_buffer = <<>> /\ needed = 0
    /\ ps_processed_len = Len(HeaderOnly) /\ pooled_vec = <<>>
    /\ heap_dump_remaining_len = 0
    /\ rc_pc = "recv" /\ recorder = ResultRecorder_new
    /\ ch_data = <<>> /\ ch_pooled_data = <<>> /\ ch_pooled_vec = <<>>
    /\ ch_records = <<NamesBatch>> \o batches
    /\ ch_progress = <<>> /\ ch_result = <<>>
    /\ emitted = <<>> /\ folded = <<>> /\ progress_sent = <<>>

FoldInit ==
    \E n \in 0..MaxFold, b \in BOOLEAN :
        \E S \in {ClassRecords, ArrayRecords} :
            \E rs \in [1..n -> S] : FoldInitWith([k \in 1..n |-> <<rs[k]>>], b)

FoldNext == RC_recv

SpecFold == FoldInit /\ [][FoldNext]_vars

\* the result the recorder has sent
sent_result == ch_result[1]

\* the records folded so far that are sub-records of kind kind naming
\* class c in field fld
folded_naming(kind, fld, c) ==
    {k \in 1..Len(folded) :
        /\ folded[k].kind = "GcSegment" /\ folded[k].gc.kind = kind
        /\ folded[k].gc[fld] = c}

\* the first ClassDump folded for class c
first_class_dump(c) ==
    folded[CHOOSE k \in folded_naming("ClassDump", "class_object_id", c) :
               \A j \in folded_naming("ClassDump", "class_object_id", c) : k <= j].gc

\* a ClassDump was folded for c and for each of its ancestors
RECURSIVE chain_dumped(_)
chain_dumped(c) ==
    \/ c = 0
    \/ /\ folded_naming("ClassDump", "class_object_id", c) # {}
       /\ chain_dumped(first_class_dump(c).super_class_object_id)

\* the instance sizes of c and of its ancestors, from the first ClassDump
\* of each
RECURSIVE owned_size(_)
owned_size(c) ==
    IF c = 0 THEN 0
    ELSE first_class_dump(c).instance_size
             + owned_size(first_class_dump(c).super_class_object_id)

\* the owned size, the object header of 16 bytes and the padding
per_instance_size(c) == (owned_size(c) + 16) + ((owned_size(c) + 16) % 8)

\* the classes with at least one InstanceDump folded
classes_with_instances ==
    {c \in {16, 17} : folded_naming("InstanceDump", "class_object_id", c) # {}}

\* C34: in the report, each class with instances has its ancestors dumped
\* and has a row whose count is
\* the number of InstanceDump sub-records naming the class, whose size is
\* the per-instance size (the instance sizes of the first ClassDump of the
\* class and of each ancestor, plus 16, plus the padding) and whose total
\* is their product, whatever the data_size of the instance dumps
C34_ClassTotalIsSizeTimesCount ==
    (rc_pc = "done" /\ ch_result # <<>>) =>
        /\ Len(sent_result.memory_usage.allocated)
               = Cardinality(classes_with_instances)
                     + Cardinality(DOMAIN recorder.primitive_array_counters)
                     + Cardinality(DOMAIN recorder.object_array_counters)
        /\ \A c \in classes_with_instances : chain_dumped(c)
        /\ \A c \in classes_with_instances :
               \E k \in 1..Len(sent_result.memory_usage.allocated) :
                   sent_result.memory_usage.allocated[k] =
                       [class_name |-> get_class_name_string(recorder, c),
                        count |-> Cardinality(folded_naming("InstanceDump", "class_object_id", c)),
                        largest |-> per_instance_size(c),
                        total |-> per_instance_size(c)
                                  * Cardinality(folded_naming("InstanceDump", "class_object_id", c))]

\* class 16 was dumped with super class 17 and 4 bytes, class 17 with 3
\* bytes, and one instance of class 16 that carries 4 bytes of data was
\* folded: 4 + 3 + 16 = 23 bytes, shown as 23 + 7 = 30
C34_Witness ==
    /\ rc_pc = "done" /\ ch_result # <<>>
    /\ Cardinality(folded_naming("ClassDump", "class_object_id", 16)) = 1
    /\ first_class_dump(16).super_class_object_id = 17
    /\ Cardinality(folded_naming("InstanceDump", "class_object_id", 16)) = 1
    /\ \E k \in folded_naming("InstanceDump", "class_object_id", 16) :
           folded[k].gc.data_size = 4
    /\ sent_result.memory_usage.allocated[1].total = 30

\* ------------------------------------------------------------------------
\* The array counters
\* ------------------------------------------------------------------------

\* the sum and the largest of the element counts of the folded records
\* with indices in S
RECURSIVE sum_of_elements(_)
sum_of_elements(S) ==
    IF S = {} THEN 0
    ELSE LET k == CHOOSE j \in S : TRUE
         IN  folded[k].gc.number_of_elements + sum_of_elements(S \ {k})

largest_of_elements(S) ==
    IF S = {} THEN 0
    ELSE CHOOSE n \in {folded[k].gc.number_of_elements : k \in S} :
             \A k \in S : folded[k].gc.number_of_elements <= n

\* the counter that the arrays with indices in S add up to
counter_of(S) ==
    [number_of_arrays |-> Cardinality(S),
     total_number_of_elements |-> sum_of_elements(S),
     max_size_seen |-> largest_of_elements(S)]

\* the keys of the arrays folded so far
primitive_types_seen ==
    {t \in PrimitiveTypes : folded_naming("PrimitiveArrayDump", "element_type", t) # {}}
array_classes_seen ==
    {c \in {16, 17} : folded_naming("ObjectArrayDump", "array_class_id", c) # {}}

\* the rows of the result sent
sent_rows ==
    {sent_result.memory_usage.allocated[k] :
        k \in 1..Len(sent_result.memory_usage.allocated)}

\* C35: at every moment the counter of each primitive element type and of
\* each object-array class holds the number of arrays folded for that key,
\* the sum of their element counts and the largest of them; the totals
\* reported are count x 16 + total_elements x element_size + count x 4 for
\* primitive arrays and count x 16 + total_elements x id_size for object
\* arrays
C35_ArrayCountersAndTotals ==
    /\ DOMAIN recorder.primitive_array_counters = primitive_types_seen
    /\ DOMAIN recorder.object_array_counters = array_classes_seen
    /\ \A t \in primitive_types_seen :
           recorder.primitive_array_counters[t]
               = counter_of(folded_naming("PrimitiveArrayDump", "element_type", t))
    /\ \A c \in array_classes_seen :
           recorder.object_array_counters[c]
               = counter_of(folded_naming("ObjectArrayDump", "array_class_id", c))
    /\ (rc_pc = "done" /\ ch_result # <<>>) =>
           /\ \A t \in primitive_types_seen :
                  \E r \in sent_rows :
                      /\ r.class_name = primitive_array_label(t)
                      /\ r.count = recorder.primitive_array_counters[t].number_of_arrays
                      /\ r.total = r.count * 16
                                   + recorder.primitive_array_counters[t].total_number_of_elements
                                         * primitive_byte_size(t)
                                   + r.count * 4
           /\ \A c \in array_classes_seen :
                  \E r \in sent_rows :
                      /\ r.class_name = get_class_name_string(recorder, c) \o <<91, 93>>
                      /\ r.count = recorder.object_array_counters[c].number_of_arrays
                      /\ r.total = r.count * 16
                                   + recorder.object_array_counters[c].total_number_of_elements
                                         * ID_SIZE
                      /\ r.largest = 16 + recorder.object_array_counters[c].max_size_seen * ID_SIZE

\* byte[3], byte[1] and an array of 2 references of class 16 were folded,
\* the largest byte[] first: 2 arrays of 4 elements, at most 3, reported
\* with 2 x 16 + 4 x 1 + 2 x 4 = 44 bytes, and A[] with 16 + 2 x 8 = 32
C35_Witness ==
    /\ rc_pc = "done" /\ ch_result # <<>>
    /\ Len(folded) = 7
    /\ folded[5].gc.kind = "PrimitiveArrayDump" /\ folded[5].gc.number_of_elements = 3
    /\ recorder.primitive_array_counters[FieldType_Byte]
           = [number_of_arrays |-> 2, total_number_of_elements |-> 4, max_size_seen |-> 3]
    /\ \E r \in sent_rows : r.class_name = primitive_array_label(FieldType_Byte) /\ r.total = 44
    /\ \E r \in sent_rows : r.class_name = <<65, 91, 93>> /\ r.total = 32

\* ------------------------------------------------------------------------
\* The size of an instance for instance sizes of the whole 32-bit range
\* ------------------------------------------------------------------------

\* instance sizes: 0, 8, 2^31 - 16, 2^31 - 1, 2^31, 2^32 - 16 and 2^32 - 1
\* (a u32 of 2^31 or more is kept as the integer minus 2^32)
WideSizes == {0, 8, 2147483632, 2147483647, minus_2_31(0), 0 - 16, 0 - 1}

\* a dump with class "A" of instance size a, its super class "B" of
\* instance size b, and one instance of "A"
wide_dump(a, b) ==
    HeaderOnly
        \o utf8_bytes(1, <<65>>) \o utf8_bytes(2, <<66>>)
        \o load_class_bytes(1, 16, 1) \o load_class_bytes(2, 17, 2)
        \o record_bytes(TAG_HEAP_DUMP_SEGMENT,
                        class_dump_bytes(16, 17, a) \o class_dump_bytes(17, 0, b)
                            \o instance_dump_bytes(9, 16, <<>>))
        \o heap_dump_end_bytes

\* the recorder has folded the records of the dump and is about to render
WideInit ==
    \E a \in WideSizes, b \in WideSizes, c \in BOOLEAN :
        /\ file = wide_dump(a, b) /\ read_size = MaxReadSize /\ oc = c
        /\ top = DefaultTop /\ is_file = TRUE /\ header_result = NoReport
        /\ drv_pc = "render_rows" /\ outcome = "none" /\ report = NoReport /\ pb_position = <<>>
        /\ rd_pc = "done" /\ rd_processed_len = Len(wide_dump(a, b))
        /\ ps_pc = "done" /\ loop_buffer = <<>> /\ needed = 0
        /\ ps_processed_len = Len(wide_dump(a, b)) /\ pooled_vec = <<>>
        /\ heap_dump_remaining_len = 0
        /\ rc_pc = "render_rows"
        /\ recorder = record_records(ResultRecorder_new,
                                     records_from(body(wide_dump(a, b)), 0, 0, c))
        /\ ch_data = <<>> /\ ch_pooled_data = <<>> /\ ch_records = <<>> /\ ch_pooled_vec = <<>>
        /\ ch_progress = <<>> /\ ch_result = <<>>
        /\ emitted = records_from(body(wide_dump(a, b)), 0, 0, c)
        /\ folded = records_from(body(wide_dump(a, b)), 0, 0, c)
        /\ progress_sent = <<>>

WideNext == RenderRows

SpecWide == WideInit /\ [][WideNext]_vars

\* an unsigned value as two digits in base 2^16, which can hold 64-bit sums
\* of a few u32: the digits of a u32, and the sum of two such numbers
digits(v) == [hi |-> (v \div 65536) % 65536, lo |-> v % 65536]
digits_add(x, y) ==
    [hi |-> x.hi + y.hi + (x.lo + y.lo) \div 65536, lo |-> (x.lo + y.lo) % 65536]

\* the instance sizes of classes 16 and 17 as the ClassDumps carry them
dumped_instance_size(c) == digits(first_class_dump(c).instance_size)

\* instance sizes of the chain, object header and padding, added without
\* any limit of width
exact_instance_size ==
    LET s == digits_add(digits_add(dumped_instance_size(16), dumped_instance_size(17)),
                        digits(16))
    IN  digits_add(s, digits(s.lo % 8))

\* C36: the size of an instance is computed on 64 bits: for every
\* instance_size a ClassDump can carry the rendering ends and reports the
\* exact sum of the instance sizes of the chain, of the header and of the
\* padding
C36_SizesAreSixtyFourBits ==
    rc_pc = "rendered_rows" =>
        /\ report.res = "Ok"
        /\ digits(report.rows.allocated[1].largest) = exact_instance_size

\* in a build without overflow checks a class of instance size 2^32 - 16
\* whose super class has size 0 is reported with 0 bytes per instance:
\* 2^32 - 16 + 16 wrapped
C36_Witness ==
    /\ rc_pc = "rendered_rows" /\ ~oc
    /\ first_class_dump(16).instance_size = 0 - 16
    /\ first_class_dump(17).instance_size = 0
    /\ exact_instance_size = [hi |-> 65536, lo |-> 0]
    /\ report.res = "Ok"
    /\ report.rows.allocated[1].largest = 0

\* ------------------------------------------------------------------------
\* Dumps without instances and arrays
\* ------------------------------------------------------------------------

\* the valid dumps that give no row to the memory tables
RowlessFiles == {HeaderOnly, RootsOnly}

\* the recorder has counted no instance and no array
no_rows ==
    /\ recorder.classes_all_instance_total_size_by_id = EmptyMap
    /\ recorder.primitive_array_counters = EmptyMap
    /\ recorder.object_array_counters = EmptyMap

\* C37: on a valid dump without InstanceDump and array sub-records no
\* worker fails, the recorder never counts a row, and when slurp_file has
\* returned it has returned a report whose memory tables are empty
C37_RowlessDumpCompletes ==
    file \in RowlessFiles =>
        /\ no_rows
        /\ rd_pc # "panicked" /\ ps_pc # "panicked" /\ rc_pc # "panicked"
        /\ drv_pc = "done" =>
              /\ outcome = "Ok" /\ report # NoReport
              /\ report.memory_usage.allocated = <<>>
              /\ report.memory_usage.largest = <<>>

\* the reader sent no chunk for the header-only dump, the parser returned,
\* the recorder folded nothing, panicked while rendering its empty tables
\* and sent no result
C37_Witness ==
    /\ file = HeaderOnly /\ no_rows
    /\ rd_pc = "done" /\ rd_processed_len = FILE_HEADER_LENGTH
    /\ ps_pc = "done" /\ progress_sent = <<>>
    /\ folded = <<>> /\ rc_pc = "panicked" /\ ch_result = <<>>

\* ------------------------------------------------------------------------
\* The shutdown of the workers
\* ------------------------------------------------------------------------

\* C38: on a valid dump the reader and the parser never fail, and the
\* recorder never fails in its loop: it can fail only once the records
\* channel is closed and drained and every record sent is folded, that is
\* while rendering; buffers and vectors handed back to a worker that has
\* returned are dropped
C38_PeerExitIsTolerated ==
    file \in ValidFiles =>
        /\ rd_pc # "panicked"
        /\ ps_pc # "panicked"
        /\ rc_pc = "panicked" => (ps_pc = "done" /\ ch_records = <<>> /\ folded = emitted)

\* the run has ended well although the parser handed a buffer back after
\* the reader had returned and the recorder a vector after the parser had
\* returned: both were dropped, so that one of the two buffers is left
\* on the channels and the vector that went round is not
C38_Witness ==
    /\ file = ClassDumpFile
    /\ drv_pc = "done" /\ outcome = "Ok"
    /\ rd_pc = "done" /\ ps_pc = "done" /\ rc_pc = "done"
    /\ pooled_buffers = 1
    /\ pooled_vectors = 0

\* ------------------------------------------------------------------------
\* The maps of the recorder
\* ------------------------------------------------------------------------

\* the top-level records of kind kind folded so far whose field fld is v
folded_top_level(kind, fld, v) ==
    {k \in 1..Len(folded) : folded[k].kind = kind /\ folded[k][fld] = v}

\* the last of them
last_folded(kind, fld, v) ==
    folded[CHOOSE k \in folded_top_level(kind, fld, v) :
               \A j \in folded_top_level(kind, fld, v) : j <= k]

\* the LoadClass records folded so far, in their order
RECURSIVE load_classes_of(_)
load_classes_of(rs) ==
    IF rs = <<>> THEN <<>>
    ELSE (IF Head(rs).kind = "LoadClass" THEN <<Head(rs)>> ELSE <<>>)
             \o load_classes_of(Tail(rs))

\* the ids of the model's records
StringIds == {1, 2}
ClassIds == {16, 17}
ClassSerials == {1, 2, 3}

\* class_info holds, for each class dumped, what its first ClassDump said;
\* a string id and a class id map to what the last record with that id
\* said; both class indices point into class_data, at a descriptor with
\* the key they are indexed by
maps_follow_records ==
    /\ DOMAIN recorder.classes_single_instance_size_by_id
           = {c \in ClassIds : folded_naming("ClassDump", "class_object_id", c) # {}}
    /\ \A c \in DOMAIN recorder.classes_single_instance_size_by_id :
           recorder.classes_single_instance_size_by_id[c]
               = [super_class_object_id |-> first_class_dump(c).super_class_object_id,
                  instance_size |-> first_class_dump(c).instance_size]
    /\ recorder.heap_dump_segments_gc_class_dump
           = Cardinality({k \in 1..Len(folded) :
                             folded[k].kind = "GcSegment" /\ folded[k].gc.kind = "ClassDump"})
    /\ DOMAIN recorder.utf8_strings_by_id
           = {i \in StringIds : folded_top_level("Utf8String", "id", i) # {}}
    /\ \A i \in DOMAIN recorder.utf8_strings_by_id :
           recorder.utf8_strings_by_id[i] = last_folded("Utf8String", "id", i).str
    /\ recorder.class_data = load_classes_of(folded)
    /\ DOMAIN recorder.class_data_by_id
           = {c \in ClassIds : folded_top_level("LoadClass", "class_object_id", c) # {}}
    /\ \A c \in DOMAIN recorder.class_data_by_id :
           /\ recorder.class_data_by_id[c] \in 1..Len(recorder.class_data)
           /\ recorder.class_data[recorder.class_data_by_id[c]].class_object_id = c
           /\ recorder.class_data[recorder.class_data_by_id[c]]
                  = last_folded("LoadClass", "class_object_id", c)
    /\ \A n \in DOMAIN recorder.class_data_by_serial_number :
           /\ recorder.class_data_by_serial_number[n] \in 1..Len(recorder.class_data)
           /\ recorder.class_data[recorder.class_data_by_serial_number[n]].serial_number = n

\* the recorder folds a batch made of one ClassDump for a class that has
\* an entry
folds_repeated_class_dump ==
    /\ rc_pc = "recv" /\ ch_records # <<>>
    /\ Len(Head(ch_records)) = 1
    /\ Head(ch_records)[1].kind = "GcSegment"
    /\ Head(ch_records)[1].gc.kind = "ClassDump"
    /\ Head(ch_records)[1].gc.class_object_id
           \in DOMAIN recorder.classes_single_instance_size_by_id

\* such a step changes the two counters of sub-records and nothing else
only_counts_class_dump ==
    folds_repeated_class_dump =>
        recorder' = [recorder EXCEPT !.heap_dump_segments_gc_class_dump = @ + 1,
                                     !.heap_dump_segments_all_sub_records = @ + 1]

\* C39: a ClassDump for a class that has an entry in class_info leaves the
\* entry as the first ClassDump made it and only adds to the counters; a
\* repeated LoadClass or Utf8String id replaces the earlier mapping; both
\* class indices hold positions of class_data and the by-id index of k
\* points at a descriptor whose class_object_id is k
C39_ClassInfoIsWriteOnce == []maps_follow_records /\ [][only_counts_class_dump]_vars

\* class 16 was dumped with super class 17 and 4 bytes, then alone with 1
\* byte, then loaded again under the name of string 2: the entry is the
\* first one, two class dumps are counted, and the by-id index of 16
\* points at the third descriptor
C39_Witness ==
    /\ Len(folded) = 7
    /\ Cardinality(folded_naming("ClassDump", "class_object_id", 16)) = 2
    /\ recorder.classes_single_instance_size_by_id[16]
           = [super_class_object_id |-> 17, instance_size |-> 4]
    /\ recorder.heap_dump_segments_gc_class_dump = 2
    /\ Len(recorder.class_data) = 3
    /\ recorder.class_data_by_id[16] = 3
    /\ recorder.class_data[3].class_name_id = 2

====
